---- MODULE Spec2Model ----
(***************************************************************************)
(* A model of aclements/go-obj: the interval map (internal/imap) over its  *)
(* AVL tree, the DWARF inline builder and line reader (dbg), and the lazy  *)
(* caches and relocation decoding of the ELF backend (obj).                *)
(***************************************************************************)
EXTENDS Integers, Sequences, FiniteSets, TLC

(***************************************************************************)
(* Bounds of the model.                                                    *)
(***************************************************************************)
\* Addresses inserted into an Imap are drawn from 0..MaxAddr.
MaxAddr == 5
\* Number of distinct non-nil values inserted into the Imap.
MaxVal == 2

Nil == 0

(***************************************************************************)
(* internal/imap: the AVL tree.  A tree value is a record                  *)
(*   [root |-> node id or Nil, nd |-> sequence of node records,            *)
(*    err |-> "ok" | "panic" | "hang"]                                     *)
(* A node id is an index into nd; node objects are never reused, as Go     *)
(* pointers are not.  err records a nil dereference or a loop that does    *)
(* not end.                                                                *)
(***************************************************************************)
EmptyTree == [root |-> Nil, nd |-> <<>>, err |-> "ok"]

NewNode(key, parent) ==
    [key |-> key, left |-> Nil, right |-> Nil, parent |-> parent,
     heightCache |-> 1, high |-> 0, value |-> Nil]

Fuel(t) == 2 * Len(t.nd) + 4

Fail(t, why) == [t EXCEPT !.err = why]

\* nodeP: the pointer to n from n's parent, as the field it names.
nodeP(t, n) ==
    LET p == t.nd[n].parent IN
    IF p = Nil THEN [at |-> Nil, f |-> "root"]
    ELSE IF t.nd[p].left = n THEN [at |-> p, f |-> "left"]
    ELSE [at |-> p, f |-> "right"]

Load(t, np) ==
    IF np.f = "root" THEN t.root
    ELSE IF np.f = "left" THEN t.nd[np.at].left
    ELSE t.nd[np.at].right

Store(t, np, v) ==
    IF np.f = "root" THEN [t EXCEPT !.root = v]
    ELSE IF np.f = "left" THEN [t EXCEPT !.nd[np.at].left = v]
    ELSE [t EXCEPT !.nd[np.at].right = v]

height(t, n) == IF n = Nil THEN 0 ELSE t.nd[n].heightCache

\* The height of a node whose children have heights l and r.
heightOver(l, r) == IF l > r THEN l + 1 ELSE r + 1

updateHeight(t, n) ==
    [t EXCEPT !.nd[n].heightCache =
        heightOver(height(t, t.nd[n].left), height(t, t.nd[n].right))]

balance(t, n) == height(t, t.nd[n].left) - height(t, t.nd[n].right)

SetParent(t, n, p) == IF n = Nil THEN t ELSE [t EXCEPT !.nd[n].parent = p]

\* rotateLeft on n = *np with nr = n.right.
rotateLeftAt(t, np, n, nr) ==
    Store(updateHeight(updateHeight(
            SetParent([t EXCEPT !.nd[n].parent = nr,
                                !.nd[n].right = t.nd[nr].left,
                                !.nd[nr].parent = t.nd[n].parent,
                                !.nd[nr].left = n],
                      t.nd[nr].left, n),
            n), nr),
          np, nr)

rotateLeftOf(t, np, n) ==
    IF n = Nil THEN Fail(t, "panic")
    ELSE IF t.nd[n].right = Nil THEN Fail(t, "panic")
    ELSE rotateLeftAt(t, np, n, t.nd[n].right)

rotateLeft(t, np) == IF t.err # "ok" THEN t ELSE rotateLeftOf(t, np, Load(t, np))

\* rotateRight on n = *np with nl = n.left.
rotateRightAt(t, np, n, nl) ==
    Store(updateHeight(updateHeight(
            SetParent([t EXCEPT !.nd[n].parent = nl,
                                !.nd[n].left = t.nd[nl].right,
                                !.nd[nl].parent = t.nd[n].parent,
                                !.nd[nl].right = n],
                      t.nd[nl].right, n),
            n), nl),
          np, nl)

rotateRightOf(t, np, n) ==
    IF n = Nil THEN Fail(t, "panic")
    ELSE IF t.nd[n].left = Nil THEN Fail(t, "panic")
    ELSE rotateRightAt(t, np, n, t.nd[n].left)

rotateRight(t, np) == IF t.err # "ok" THEN t ELSE rotateRightOf(t, np, Load(t, np))

\* rebalance's rotation of node itself, through the pointer to it.
rotateRightNode(t, node) == IF t.err # "ok" THEN t ELSE rotateRight(t, nodeP(t, node))

rotateLeftNode(t, node) == IF t.err # "ok" THEN t ELSE rotateLeft(t, nodeP(t, node))

\* rebalance's loop body at node, after node.updateHeight().
rebalanceNode(t, node) ==
    IF balance(t, node) > 1 THEN
      rotateRightNode(IF balance(t, t.nd[node].left) < 0
                      THEN rotateLeft(t, [at |-> node, f |-> "left"])
                      ELSE t, node)
    ELSE IF balance(t, node) < -1 THEN
      rotateLeftNode(IF balance(t, t.nd[node].right) > 0
                     THEN rotateRight(t, [at |-> node, f |-> "right"])
                     ELSE t, node)
    ELSE t

\* One iteration of rebalance's loop body at node.
rebalanceStep(t, node) == rebalanceNode(updateHeight(t, node), node)

RECURSIVE rebalanceLoop(_, _, _)
\* rebalance's step to node.parent.
rebalanceUp(t, node, fuel) ==
    IF t.err # "ok" THEN t ELSE rebalanceLoop(t, t.nd[node].parent, fuel)

rebalanceLoop(t, node, fuel) ==
    IF node = Nil \/ t.err # "ok" THEN t
    ELSE IF fuel = 0 THEN Fail(t, "hang")
    ELSE rebalanceUp(rebalanceStep(t, node), node, fuel - 1)

\* A rebalance that leaves heights and shape as they are.
rebalanceNever(t, node) == t

rebalance(t, node) == rebalanceLoop(t, node, Fuel(t))

\* avlTree.Insert's descent: the node with the key, or the parent and the
\* field under which a new node goes.
RECURSIVE insertFind(_, _, _, _, _, _)
insertFind(t, key, p, np, n, fuel) ==
    IF n = Nil THEN [found |-> Nil, p |-> p, np |-> np, hang |-> FALSE]
    ELSE IF fuel = 0 THEN [found |-> Nil, p |-> p, np |-> np, hang |-> TRUE]
    ELSE IF key < t.nd[n].key
         THEN insertFind(t, key, n, [at |-> n, f |-> "left"], t.nd[n].left, fuel - 1)
    ELSE IF key > t.nd[n].key
         THEN insertFind(t, key, n, [at |-> n, f |-> "right"], t.nd[n].right, fuel - 1)
    ELSE [found |-> n, p |-> p, np |-> np, hang |-> FALSE]

\* avlTree.Insert once the descent r is known.
treeInsertAt(t, key, r) ==
    IF r.hang THEN [t |-> Fail(t, "hang"), n |-> Nil]
    ELSE IF r.found # Nil THEN [t |-> t, n |-> r.found]
    ELSE [t |-> rebalance(Store([t EXCEPT !.nd = Append(t.nd, NewNode(key, r.p))],
                                r.np, Len(t.nd) + 1),
                          r.p),
          n |-> Len(t.nd) + 1]

\* avlTree.Insert: the tree after, and the node returned.
TreeInsert(t, key) ==
    treeInsertAt(t, key,
                 insertFind(t, key, Nil, [at |-> Nil, f |-> "root"], t.root, Fuel(t)))

\* The in-order successor of node within its right subtree, with the field
\* that points to it (Delete's succP, succ loop).
RECURSIVE succDescend(_, _, _, _)
succDescend(t, succP, succ, fuel) ==
    IF fuel = 0 THEN [succP |-> succP, succ |-> succ, hang |-> TRUE]
    ELSE IF t.nd[succ].left # Nil
         THEN succDescend(t, [at |-> succ, f |-> "left"], t.nd[succ].left, fuel - 1)
    ELSE [succP |-> succP, succ |-> succ, hang |-> FALSE]

\* The transposition without its fixing of parent pointers.
fixParentsNone(t, node, succ) == t

\* Delete's "fix parent pointers" after the transposition.
fixParents(t, node, succ) ==
    SetParent(SetParent(SetParent(t, t.nd[succ].left, succ),
                        t.nd[succ].right, succ),
              t.nd[node].right, node)

\* The links of node and succ exchanged, succ being node.right.
linkAdjacent(t, node, succ, nodeP0) ==
    [Store(t, nodeP0, succ) EXCEPT
        !.nd[succ].right = node,
        !.nd[node].left = Nil, !.nd[node].right = t.nd[succ].right,
        !.nd[succ].left = t.nd[node].left, !.nd[succ].parent = t.nd[node].parent,
        !.nd[node].heightCache = t.nd[succ].heightCache,
        !.nd[succ].heightCache = t.nd[node].heightCache]

\* The links of node and succ exchanged, succ being deeper than node.right.
linkDistant(t, node, succ, nodeP0, succP) ==
    [Store([Store(t, nodeP0, succ) EXCEPT
               !.nd[succ].right = t.nd[node].right,
               !.nd[node].parent = t.nd[succ].parent],
           succP, node) EXCEPT
        !.nd[node].left = Nil, !.nd[node].right = t.nd[succ].right,
        !.nd[succ].left = t.nd[node].left, !.nd[succ].parent = t.nd[node].parent,
        !.nd[node].heightCache = t.nd[succ].heightCache,
        !.nd[succ].heightCache = t.nd[node].heightCache]

\* Delete's transposition of node and its in-order successor d.succ: the
\* tree after, and the field that now points to node.
transposeWith(t, node, nodeP0, d) ==
    IF d.hang THEN [t |-> Fail(t, "hang"), nodeP |-> nodeP0]
    ELSE IF d.succ = t.nd[node].right
    THEN [t |-> fixParents(linkAdjacent(t, node, d.succ, nodeP0), node, d.succ),
          nodeP |-> [at |-> d.succ, f |-> "right"]]
    ELSE [t |-> fixParents(linkDistant(t, node, d.succ, nodeP0, d.succP), node, d.succ),
          nodeP |-> d.succP]

transpose(t, node, nodeP0) ==
    transposeWith(t, node, nodeP0,
                  succDescend(t, [at |-> node, f |-> "right"], t.nd[node].right, Fuel(t)))

\* Delete's removal of node, which has at most one child, through the field
\* np that points to it.
unlink(t, node, np) ==
    IF t.nd[node].left = Nil
    THEN SetParent(Store(t, np, t.nd[node].right), t.nd[node].right, t.nd[node].parent)
    ELSE IF t.nd[node].right = Nil
    THEN SetParent(Store(t, np, t.nd[node].left), t.nd[node].left, t.nd[node].parent)
    ELSE t

\* Delete after the transposition a, if any.
deleteAfter(a, node) ==
    IF a.t.err # "ok" THEN a.t ELSE rebalance(unlink(a.t, node, a.nodeP), node)

\* avlTree.Delete.
TreeDelete(t, node) ==
    deleteAfter(IF t.nd[node].left # Nil /\ t.nd[node].right # Nil
                THEN transpose(t, node, nodeP(t, node))
                ELSE [t |-> t, nodeP |-> nodeP(t, node)],
                node)

\* avlTree.Search for the two predicates the package uses:
\* "le": low <= n.high (Insert), "lt": addr < n.high (Find, Iter).
SearchPred(t, n, kind, x) ==
    IF kind = "le" THEN x <= t.nd[n].high ELSE x < t.nd[n].high

RECURSIVE searchLoop(_, _, _, _, _, _)
searchLoop(t, kind, x, n, best, fuel) ==
    IF n = Nil \/ fuel = 0 THEN best
    ELSE IF SearchPred(t, n, kind, x)
         THEN searchLoop(t, kind, x, t.nd[n].left, n, fuel - 1)
         ELSE searchLoop(t, kind, x, t.nd[n].right, best, fuel - 1)

Search(t, kind, x) == searchLoop(t, kind, x, t.root, Nil, Fuel(t))

RECURSIVE upLeft(_, _, _)
upLeft(t, n, fuel) ==
    IF fuel = 0 THEN n
    ELSE IF t.nd[n].parent # Nil /\ t.nd[t.nd[n].parent].right = n
         THEN upLeft(t, t.nd[n].parent, fuel - 1)
    ELSE n

RECURSIVE downLeft(_, _, _)
downLeft(t, n, fuel) ==
    IF fuel = 0 THEN n
    ELSE IF t.nd[n].left # Nil THEN downLeft(t, t.nd[n].left, fuel - 1)
    ELSE n

\* avlNode.Next.
NodeNext(t, n) ==
    IF t.nd[n].right = Nil
    THEN t.nd[upLeft(t, n, Fuel(t))].parent
    ELSE downLeft(t, t.nd[n].right, Fuel(t))

(***************************************************************************)
(* internal/imap: Interval and Imap.                                       *)
(***************************************************************************)
Interval(lo, hi) == [Low |-> lo, High |-> hi]

ZeroInterval == Interval(0, 0)

Empty(i) == i.High <= i.Low

Contains(i, addr) == i.Low <= addr /\ addr < i.High

\* Subtract with the part above o lost.
SubtractDropsAbove(i, o) ==
    [below |-> IF i.Low < o.Low THEN Interval(i.Low, o.Low) ELSE ZeroInterval,
     above |-> ZeroInterval]

\* Interval.Subtract: the part of i below o and the part of i above o.
Subtract(i, o) ==
    [below |-> IF i.Low < o.Low THEN Interval(i.Low, o.Low) ELSE ZeroInterval,
     above |-> IF o.High < i.High THEN Interval(o.High, i.High) ELSE ZeroInterval]

interval(t, n) == Interval(t.nd[n].key, t.nd[n].high)

\* n2.high, n2.value = high, value on the node r.n that Insert returned.
setNode(r, high, value) ==
    IF r.t.err # "ok" THEN r.t
    ELSE [r.t EXCEPT !.nd[r.n].high = high, !.nd[r.n].value = value]

\* Imap.Insert's "n = n2; break" with r what tree.Insert(h.Low) returned.
splitResult(r, high, value) ==
    [t |-> setNode(r, high, value), n |-> r.n, returned |-> FALSE]

\* Imap.Insert's split of n around the new interval: n keeps the part
\* below, a new node n2 takes the part s.above.
splitNode(t, n, s) ==
    splitResult(TreeInsert([t EXCEPT !.nd[n].high = s.below.High], s.above.Low),
                s.above.High, t.nd[n].value)

RECURSIVE insertRoom(_, _, _, _, _, _)
\* One pass of the loop of Imap.Insert on node n, nNext being n.Next() and
\* s what subtracting the new interval leaves of n.
insertRoomAt(t, n, nNext, s, low, high, value, fuel) ==
    IF ~Empty(s.below) /\ Empty(s.above) THEN
      insertRoom([t EXCEPT !.nd[n].high = s.below.High], nNext, low, high, value, fuel)
    ELSE IF Empty(s.below) /\ ~Empty(s.above) THEN
      [t |-> [t EXCEPT !.nd[n].key = s.above.Low], n |-> n, returned |-> FALSE]
    ELSE IF ~Empty(s.below) /\ ~Empty(s.above) THEN
      IF t.nd[n].value = value
      THEN [t |-> t, n |-> n, returned |-> TRUE]
      ELSE splitNode(t, n, s)
    ELSE
      insertRoom(TreeDelete(t, n), nNext, low, high, value, fuel)

\* The loop of Imap.Insert that makes room for [low, high).  The result is
\* the tree, the node n the loop ends on, and whether Insert returned from
\* inside the loop.
insertRoom(t, n, low, high, value, fuel) ==
    IF t.err # "ok" THEN [t |-> t, n |-> n, returned |-> TRUE]
    ELSE IF n = Nil THEN [t |-> t, n |-> n, returned |-> FALSE]
    ELSE IF ~(t.nd[n].key < high) THEN [t |-> t, n |-> n, returned |-> FALSE]
    ELSE IF fuel = 0 THEN [t |-> Fail(t, "hang"), n |-> n, returned |-> TRUE]
    ELSE insertRoomAt(t, n, NodeNext(t, n),
                      Subtract(interval(t, n), Interval(low, high)),
                      low, high, value, fuel - 1)

\* The successor test without the comparison of keys: never a merge.
abutsHighNever(t, n, high, value) == FALSE

\* Whether n starts at high with the inserted value (the successor test of
\* Imap.Insert's tail).
abutsHigh(t, n, high, value) ==
    n # Nil /\ t.nd[n].key = high /\ t.nd[n].value = value

\* Imap.Insert's tail once the predecessor was extended over the new range.
mergeIntoPred(t, pred, n, high, value) ==
    IF abutsHigh(t, n, high, value)
    THEN TreeDelete([t EXCEPT !.nd[pred].high = t.nd[n].high], n)
    ELSE t

\* The merge-or-create tail of Imap.Insert.
insertMerge(t, pred, n, low, high, value) ==
    IF pred # Nil /\ t.nd[pred].high = low /\ t.nd[pred].value = value THEN
      mergeIntoPred([t EXCEPT !.nd[pred].high = high], pred, n, high, value)
    ELSE IF abutsHigh(t, n, high, value) THEN [t EXCEPT !.nd[n].key = low]
    ELSE setNode(TreeInsert(t, low), high, value)

\* Imap.Insert after its loop r.
insertTail(r, pred, low, high, value) ==
    IF r.returned THEN r.t ELSE insertMerge(r.t, pred, r.n, low, high, value)

\* Imap.Insert with pred the node Search found.
insertFrom(t, pred, low, high, value) ==
    insertTail(insertRoom(t, pred, low, high, value, Fuel(t)), pred, low, high, value)

\* Imap.Insert(Interval{low, high}, value).
ImapInsert(t, low, high, value) ==
    IF Empty(Interval(low, high)) THEN t
    ELSE insertFrom(t, Search(t, "le", low), low, high, value)

\* Imap.Find once Search returned n.
findAt(t, n, addr) ==
    IF n # Nil /\ t.nd[n].key <= addr
    THEN [key |-> interval(t, n), value |-> t.nd[n].value]
    ELSE [key |-> ZeroInterval, value |-> Nil]

\* Imap.Find(addr): the interval and the value (Nil for none).
ImapFind(t, addr) == findAt(t, Search(t, "lt", addr), addr)

\* Imap.Iter(addr): the node the iterator is positioned on.
ImapIter(t, addr) == Search(t, "lt", addr)

\* Iter.Next until the iterator is no longer valid: the nodes visited.
RECURSIVE iterate(_, _, _)
iterate(t, n, fuel) ==
    IF n = Nil \/ fuel = 0 THEN <<>>
    ELSE <<n>> \o iterate(t, NodeNext(t, n), fuel - 1)

\* The (interval, value) pairs at the nodes ns.
entriesAt(t, ns) ==
    [i \in 1..Len(ns) |-> [key |-> interval(t, ns[i]), value |-> t.nd[ns[i]].value]]

\* The (interval, value) pairs that iterating from Iter(addr) yields.
IterFrom(t, addr) == entriesAt(t, iterate(t, ImapIter(t, addr), Fuel(t)))

(***************************************************************************)
(* Node objects no pointer reaches are collected, and the ids of the rest  *)
(* are renumbered in preorder: a node id is only a name for a Go pointer.  *)
(***************************************************************************)
RECURSIVE preorder(_, _, _)
preorder(t, n, fuel) ==
    IF n = Nil \/ fuel = 0 THEN <<>>
    ELSE <<n>> \o preorder(t, t.nd[n].left, fuel - 1) \o preorder(t, t.nd[n].right, fuel - 1)

Range(f) == {f[i] : i \in DOMAIN f}

\* The node records of the ids in live, renumbered by position in live.
renumber(t, live) ==
    [i \in 1..Len(live) |->
        [t.nd[live[i]] EXCEPT
            !.left = IF @ = Nil THEN Nil ELSE CHOOSE j \in 1..Len(live) : live[j] = @,
            !.right = IF @ = Nil THEN Nil ELSE CHOOSE j \in 1..Len(live) : live[j] = @,
            !.parent = IF @ = Nil THEN Nil ELSE CHOOSE j \in 1..Len(live) : live[j] = @]]

collectLive(t, live) ==
    IF /\ Cardinality(Range(live)) = Len(live)
       /\ \A o \in Range(live) : t.nd[o].parent \in Range(live) \cup {Nil}
    THEN [t EXCEPT !.root = IF @ = Nil THEN Nil ELSE 1, !.nd = renumber(t, live)]
    ELSE t

Collect(t) == IF t.err # "ok" THEN t ELSE collectLive(t, preorder(t, t.root, Fuel(t)))

(***************************************************************************)
(* Specification SpecImap: an Imap under arbitrary Insert calls, beside    *)
(* the array of imap_test.go's TestImapRandom that records, per address,   *)
(* the value of the latest insert covering it (Nil for none).              *)
(***************************************************************************)
VARIABLES m, want

imapVars == <<m, want>>

Addrs == 0..MaxAddr

Vals == 1..MaxVal

InitImapVars ==
    /\ m = EmptyTree
    /\ want = [a \in Addrs |-> Nil]

\* m.Insert(Interval{low, high}, val), and the test's update of want.
Insert(low, high, val) ==
    /\ m.err = "ok"
    /\ m' = Collect(ImapInsert(m, low, high, val))
    /\ want' = [a \in Addrs |-> IF low <= a /\ a < high THEN val ELSE want[a]]

\* The run of equal entries of want around address k (TestImapRandom's
\* "break want into ranges").
RunLow(w, k) == CHOOSE i \in 0..k :
    /\ \A j \in i..k : w[j] = w[k]
    /\ (i = 0 \/ w[i - 1] # w[k])

RunHigh(w, k) == CHOOSE j \in (k + 1)..(MaxAddr + 1) :
    /\ \A i \in k..(j - 1) : w[i] = w[k]
    /\ (j = MaxAddr + 1 \/ w[j] # w[k])

\* What TestImapRandom expects of Find(k).
WantFind(w, k) ==
    IF w[k] = Nil THEN [key |-> ZeroInterval, value |-> Nil]
    ELSE [key |-> Interval(RunLow(w, k), RunHigh(w, k)), value |-> w[k]]


(***************************************************************************)
(* debug/dwarf as package dbg uses it.  A dwarf.Data is a record dw with    *)
(* info, the entries of .debug_info in file order (an entry's Offset is    *)
(* its index; the entry that ends a list of children has Tag "Null"), and  *)
(* lines, the rows of each compilation unit's line table in file order.    *)
(***************************************************************************)
Die(tag, children, ranges) == [Tag |-> tag, Children |-> children, Ranges |-> ranges]

\* The entry that terminates a list of children (ent.Tag == 0).
NullDie == Die("Null", FALSE, <<>>)

Row(address, line) == [Address |-> address, EndSequence |-> FALSE, Line |-> line]

EndRow(address, line) == [Address |-> address, EndSequence |-> TRUE, Line |-> line]

\* dwarf.Reader.SkipChildren after an entry with children was read: the
\* offset after the terminator of that entry's children.
RECURSIVE skipChildren(_, _, _)
skipChildren(info, pos, depth) ==
    IF pos > Len(info) THEN pos
    ELSE IF info[pos].Tag = "Null"
         THEN IF depth = 0 THEN pos + 1 ELSE skipChildren(info, pos + 1, depth - 1)
    ELSE skipChildren(info, pos + 1, IF info[pos].Children THEN depth + 1 ELSE depth)

\* The reader's offset after dr.Next() returned info[pos] and
\* dr.SkipChildren() was called.
afterEntry(info, pos) ==
    IF info[pos].Children THEN skipChildren(info, pos + 1, 0) ELSE pos + 1

\* addRanges: every range of an entry inserted with value val.
RECURSIVE addRanges(_, _, _)
addRanges(t, rs, val) ==
    IF Len(rs) = 0 THEN t
    ELSE addRanges(ImapInsert(t, rs[1][1], rs[1][2], val), Tail(rs), val)

\* cuRanges: the PC ranges of the top-level compilation units, the values
\* being the units' entries.
RECURSIVE cuRangesLoop(_, _, _)
cuRangesLoop(info, pos, out) ==
    IF pos > Len(info) THEN out
    ELSE cuRangesLoop(info, afterEntry(info, pos),
                      IF info[pos].Tag = "CompileUnit"
                      THEN addRanges(out, info[pos].Ranges, pos)
                      ELSE out)

cuRanges(dw) == cuRangesLoop(dw.info, 1, EmptyTree)

\* entryMap.find.
entryFind(t, addr) == ImapFind(t, addr).value

\* Data.AddrToCU: the unit containing addr, or Nil.
AddrToCU(dw, addr) == entryFind(cuRanges(dw), addr)

\* AddrToSubprogram's index of the subprogram entries that are children of
\* a unit, pos being the reader's offset.
RECURSIVE subprogramsLoop(_, _, _)
subprogramsLoop(info, pos, out) ==
    IF pos > Len(info) THEN out
    ELSE IF info[pos].Tag = "Null" THEN out
    ELSE subprogramsLoop(info, afterEntry(info, pos),
                         IF info[pos].Tag = "Subprogram"
                         THEN addRanges(out, info[pos].Ranges, pos)
                         ELSE out)

\* cuData.subprograms.ranges once populated.
subprogramRanges(dw, cu) ==
    IF ~dw.info[cu].Children THEN EmptyTree
    ELSE subprogramsLoop(dw.info, cu + 1, EmptyTree)

\* AddrToSubprogram with cu known to be non-nil.
addrToSubprogramIn(dw, addr, cu) ==
    IF cu = Nil THEN Nil ELSE entryFind(subprogramRanges(dw, cu), addr)

\* Data.AddrToSubprogram: the entry of the subprogram containing addr, or
\* Nil.
AddrToSubprogram(dw, addr, cu) ==
    addrToSubprogramIn(dw, addr, IF cu = Nil THEN AddrToCU(dw, addr) ELSE cu)

\* dwarf.LineReader.Next on the table rows at position pos: at the end of
\* the table the entry is left as it was.
dlrNext(rows, pos, entry) ==
    IF pos > Len(rows) THEN [pos |-> pos, entry |-> entry, err |-> "EOF"]
    ELSE [pos |-> pos + 1, entry |-> rows[pos], err |-> "nil"]

\* dwarf.LineReader.SeekPC's "scan until we pass pc, then back up one".
RECURSIVE dlrScan(_, _, _, _)
dlrScan(rows, pos, pc, entry) ==
    IF pos > Len(rows) THEN [pos |-> pos, entry |-> entry, err |-> "ErrUnknownPC"]
    ELSE IF rows[pos].Address > pc
         THEN IF entry.EndSequence
              THEN [pos |-> pos + 1, entry |-> entry, err |-> "ErrUnknownPC"]
              ELSE [pos |-> pos, entry |-> entry, err |-> "nil"]
    ELSE dlrScan(rows, pos + 1, pc, rows[pos])

\* dwarf.LineReader.SeekPC after its Reset.
dlrSeekReset(rows, pc) ==
    IF rows[1].Address > pc
    THEN [pos |-> 1, entry |-> rows[1], err |-> "ErrUnknownPC"]
    ELSE dlrScan(rows, 2, pc, rows[1])

\* dwarf.LineReader.SeekPC(pc, entry) from position pos.
dlrSeekPC(rows, pos, pc, entry) ==
    IF pos > Len(rows) THEN [pos |-> pos, entry |-> entry, err |-> "EOF"]
    ELSE IF rows[pos].Address > pc THEN dlrSeekReset(rows, pc)
    ELSE dlrScan(rows, pos + 1, pc, rows[pos])

(***************************************************************************)
(* dbg: the line table cache.                                              *)
(***************************************************************************)
lineCacheFreq == 32

\* The loop of lineTableCache.ensure: k is the reader's position, i the
\* loop counter, pos the position last saved.
RECURSIVE ensureLoop(_, _, _, _, _)
ensureLoop(rows, k, i, pos, waypoints) ==
    IF k > Len(rows) THEN waypoints
    ELSE IF rows[k].EndSequence
         THEN ensureLoop(rows, k + 1, 0, IF i % lineCacheFreq = 0 THEN k ELSE pos,
                         waypoints)
    ELSE IF i % lineCacheFreq = 0
         THEN ensureLoop(rows, k + 1, i + 1, k,
                         Append(waypoints, [pc |-> rows[k].Address, pos |-> k]))
    ELSE ensureLoop(rows, k + 1, i + 1, pos, waypoints)

\* sort.Slice of the waypoints by pc.
RECURSIVE sortWaypoints(_)
sortWaypoints(ws) ==
    IF Len(ws) = 0 THEN ws
    ELSE LET i == CHOOSE j \in 1..Len(ws) :
                    /\ \A k \in 1..Len(ws) : ws[j].pc <= ws[k].pc
                    /\ \A k \in 1..(j - 1) : ws[k].pc # ws[j].pc
         IN <<ws[i]>> \o sortWaypoints([k \in 1..(Len(ws) - 1) |->
                                           IF k < i THEN ws[k] ELSE ws[k + 1]])

\* lineTableCache.ensure: the waypoints of a line table.
ensure(rows) == sortWaypoints(ensureLoop(rows, 1, 0, 1, <<>>))

\* seek's sort.Search over the waypoints, less one, at least the first.
searchWaypoint(waypoints, pc) ==
    IF Cardinality({i \in 1..Len(waypoints) : waypoints[i].pc <= pc}) < 1 THEN 1
    ELSE Cardinality({i \in 1..Len(waypoints) : waypoints[i].pc <= pc})

(***************************************************************************)
(* dbg: inlineRanges.  An InlineSite is an index into sites, the sites     *)
(* one call allocated; the loop's state s holds the map m, sites, stack    *)
(* and outer.                                                              *)
(***************************************************************************)
\* The loop's pop at an entry with Tag 0.
popStack(s) ==
    IF Len(s.stack) = 0 THEN s
    ELSE [s EXCEPT !.outer = IF s.stack[Len(s.stack)] # Nil
                             THEN s.sites[s.stack[Len(s.stack)]].Caller
                             ELSE @,
                   !.stack = SubSeq(@, 1, Len(@) - 1)]

\* "Construct the inline record" for the entry at offset pos.
pushSite(s, ent, pos) ==
    [m |-> addRanges(s.m, ent.Ranges, Len(s.sites) + 1),
     sites |-> Append(s.sites, [Entry |-> pos, Caller |-> s.outer]),
     stack |-> Append(s.stack, Len(s.sites) + 1),
     outer |-> Len(s.sites) + 1]

\* "Enter this entry".
enterEntry(s, ent) == IF ent.Children THEN [s EXCEPT !.stack = Append(@, Nil)] ELSE s

RECURSIVE inlineLoop(_, _, _)
\* The loop's end: back at the top level, or on to the next entry.
inlineEntered(info, pos, s) ==
    IF s.outer = Nil THEN s ELSE inlineLoop(info, pos + 1, s)

\* The loop's body on entry ent at offset pos, after the pop.
inlineEntry(info, pos, ent, s) ==
    IF (s.outer = Nil /\ ent.Tag = "Subprogram") \/ ent.Tag = "InlinedSubroutine"
    THEN inlineLoop(info, pos + 1, pushSite(s, ent, pos))
    ELSE IF s.outer # Nil /\ ent.Tag = "Subprogram"
    THEN inlineLoop(info, afterEntry(info, pos), s)
    ELSE inlineEntered(info, pos, enterEntry(s, ent))

inlineLoop(info, pos, s) ==
    IF pos > Len(info) THEN s
    ELSE inlineEntry(info, pos, info[pos],
                     IF info[pos].Tag = "Null" THEN popStack(s) ELSE s)

\* Data.inlineRanges(subprogram): the map and the sites its values point to.
inlineRanges(dw, subprogram) ==
    inlineLoop(dw.info, subprogram,
               [m |-> EmptyTree, sites |-> <<>>, stack |-> <<>>, outer |-> Nil])

\* The entries of an inline stack, innermost first: Entry, Caller.Entry, ...
RECURSIVE Chain(_, _)
Chain(sites, site) ==
    IF site = Nil THEN <<>>
    ELSE <<sites[site].Entry>> \o Chain(sites, sites[site].Caller)

(***************************************************************************)
(* dbg: LineReader.  A reader is a record lr: dlr is the position of the   *)
(* dwarf.LineReader of unit cu, rIter the range the iterator is on (the    *)
(* maps it iterates are never modified once built), inlineRanges the map   *)
(* and sites cached for the current subprogram, Stack the entries of the   *)
(* inline stack.  An operation yields the reader after it and its error.   *)
(***************************************************************************)
NoIter == [valid |-> FALSE, Key |-> ZeroInterval, Value |-> Nil]

NoInlineRanges == [m |-> EmptyTree, sites |-> <<>>]

\* Data.LineReader().
NewLineReader ==
    [dlr |-> 1, cu |-> Nil, ranges |-> EmptyTree, rIter |-> NoIter,
     subprogram |-> Nil, inlineRanges |-> NoInlineRanges,
     stackValid |-> ZeroInterval,
     Line |-> EndRow(0, 0), Stack |-> <<>>]

\* An imap.Iter on node n of map t.
iterOn(t, n) ==
    IF n = Nil THEN NoIter
    ELSE [valid |-> TRUE, Key |-> interval(t, n), Value |-> t.nd[n].value]

\* ranges.m.Iter(pc).
IterAt(t, pc) == iterOn(t, ImapIter(t, pc))

\* A clearStack that keeps the validity interval.
clearStackOnly(lr) == [lr EXCEPT !.Stack = <<>>]

clearStack(lr) == [lr EXCEPT !.Stack = <<>>, !.stackValid = ZeroInterval]

\* updateStack's last line with f what inlineRanges.Find returned.
setStack(lr, f) ==
    [lr EXCEPT !.stackValid = f.key, !.Stack = Chain(lr.inlineRanges.sites, f.value)]

\* updateStack after lr.inlineRanges was fetched anew.
updateStackFound(lr, f) == IF f.value = Nil THEN clearStack(lr) ELSE setStack(lr, f)

updateStackIn(lr, ir) ==
    updateStackFound([lr EXCEPT !.inlineRanges = [m |-> ir.m, sites |-> ir.sites]],
                     ImapFind(ir.m, lr.Line.Address))

\* updateStack once the current subprogram is known (Nil for none).
updateStackSub(dw, lr, subprogram) ==
    IF subprogram = Nil THEN clearStack(lr)
    ELSE updateStackIn(lr, inlineRanges(dw, subprogram))

\* updateStack with f what the current inline map has at Line.Address.
updateStackLookup(dw, lr, f) ==
    IF f.value # Nil THEN setStack(lr, f)
    ELSE updateStackSub(dw, lr,
                        IF lr.subprogram # Nil THEN lr.subprogram
                        ELSE AddrToSubprogram(dw, lr.Line.Address, lr.cu))

\* LineReader.updateStack.
updateStack(dw, lr) ==
    IF lr.Line.EndSequence THEN clearStack(lr)
    ELSE IF Contains(lr.stackValid, lr.Line.Address) THEN lr
    ELSE updateStackLookup(dw, lr, ImapFind(lr.inlineRanges.m, lr.Line.Address))

\* fmt.Errorf("seeking in line table: %w", err).
SeekingError(err) ==
    IF err = "ErrUnknownPC" THEN "seeking in line table: ErrUnknownPC"
    ELSE "seeking in line table: EOF"

\* seek after dlr.SeekPC returned r.
seekLine(dw, lr, r) ==
    IF r.err # "nil"
    THEN [lr |-> [lr EXCEPT !.dlr = r.pos, !.Line = r.entry], err |-> SeekingError(r.err)]
    ELSE [lr |-> updateStack(dw, [lr EXCEPT !.dlr = r.pos, !.Line = r.entry]),
          err |-> "nil"]

\* seek's "search the line table cache" and "position the line reader".
seekWaypoint(dw, lr, pc, waypoints) ==
    IF Len(waypoints) = 0 THEN [lr |-> lr, err |-> "panic"]
    ELSE seekLine(dw, lr,
                  dlrSeekPC(dw.lines[lr.cu], waypoints[searchWaypoint(waypoints, pc)].pos,
                            pc, lr.Line))

\* seek from "cu := CU{lr.rIter.Value()}" on.
seekCU(dw, lr, pc) ==
    seekWaypoint(dw,
                 IF lr.rIter.Value # lr.cu
                 THEN [lr EXCEPT !.cu = lr.rIter.Value, !.dlr = 1]
                 ELSE lr,
                 pc, ensure(dw.lines[lr.rIter.Value]))

\* seek's "find the range containing pc" with it = ranges.m.Iter(pc).
seekIter(dw, lr, pc, it) ==
    IF ~it.valid THEN [lr |-> [lr EXCEPT !.rIter = it], err |-> "ErrUnknownPC"]
    ELSE seekCU(dw, [lr EXCEPT !.rIter = it], IF pc < it.Key.Low THEN it.Key.Low ELSE pc)

\* seek after its two assignments.
seekRange(dw, lr, pc) ==
    IF ~lr.rIter.valid \/ ~Contains(lr.rIter.Key, pc)
    THEN seekIter(dw, lr, pc, IterAt(lr.ranges, pc))
    ELSE seekCU(dw, lr, pc)

\* LineReader.seek(ranges, pc, subprogram).
seek(dw, lr, ranges, pc, subprogram) ==
    seekRange(dw, [lr EXCEPT !.ranges = ranges, !.subprogram = subprogram], pc)

\* LineReader.SeekPC(pc).
LRSeekPC(dw, lr, pc) == seek(dw, lr, cuRanges(dw), pc, Nil)

\* LineReader.SeekSubprogram(subprogram, pc); the unit of a subprogram is
\* the unit whose children hold it.
SubprogramCU(dw, subprogram) ==
    CHOOSE cu \in 1..subprogram :
        /\ dw.info[cu].Tag = "CompileUnit"
        /\ \A c \in (cu + 1)..subprogram : dw.info[c].Tag # "CompileUnit"

LRSeekSubprogram(dw, lr, subprogram, pc) ==
    IF subprogram = lr.subprogram THEN seek(dw, lr, lr.ranges, pc, subprogram)
    ELSE seek(dw, lr,
              addRanges(EmptyTree, dw.info[subprogram].Ranges, SubprogramCU(dw, subprogram)),
              pc, subprogram)

\* Next's "seek one more byte to ensure progress".
nextSeekAgain(dw, r) ==
    IF r.err = "nil" /\ r.lr.Line.EndSequence
    THEN seek(dw, r.lr, r.lr.ranges, r.lr.Line.Address + 1, r.lr.subprogram)
    ELSE r

\* Next's "turn this into an EOF".
nextEOF(r) == IF r.err = "ErrUnknownPC" THEN [r EXCEPT !.err = "EOF"] ELSE r

\* A Next that leaves the reader on the EndSequence row it is on.
nextSequenceStays(dw, lr) == [lr |-> lr, err |-> "nil"]

\* Next on a reader whose Line is an EndSequence.
nextSequence(dw, lr) ==
    nextEOF(nextSeekAgain(dw, seek(dw, lr, lr.ranges, lr.Line.Address, lr.subprogram)))

\* Next's synthesized EndSequence.
nextEnd(dw, lr, endAddress) ==
    [lr |-> updateStack(dw, [lr EXCEPT !.Line = EndRow(endAddress, 0)]), err |-> "nil"]

\* Next within a sequence, r being what dlr.Next returned and endAddress
\* the address after the previous Line.
nextRow(dw, lr, r, endAddress) ==
    IF r.err = "nil"
    THEN IF r.entry.Address < lr.rIter.Key.High
         THEN [lr |-> updateStack(dw, [lr EXCEPT !.dlr = r.pos, !.Line = r.entry]),
               err |-> "nil"]
         ELSE nextEnd(dw, [lr EXCEPT !.dlr = r.pos, !.Line = r.entry], lr.rIter.Key.High)
    ELSE nextEnd(dw, lr, endAddress)

\* LineReader.Next.
LRNext(dw, lr) ==
    IF lr.Line.EndSequence THEN nextSequence(dw, lr)
    ELSE nextRow(dw, lr, dlrNext(dw.lines[lr.cu], lr.dlr, lr.Line), lr.Line.Address + 1)

(***************************************************************************)
(* Specification SpecLine: one LineReader over a DWARF file, under         *)
(* arbitrary SeekPC, SeekSubprogram and Next calls.                        *)
(***************************************************************************)
MaxPC == 7

MaxTrace == 12

\* One unit [1,5), one sequence; subprogram B has an inlined subroutine.
DwInlined ==
    [info |-> <<Die("CompileUnit", TRUE, << <<1, 5>> >>),
                Die("Subprogram", TRUE, << <<1, 3>> >>),
                Die("Variable", FALSE, <<>>),
                NullDie,
                Die("Subprogram", TRUE, << <<3, 5>> >>),
                Die("InlinedSubroutine", TRUE, << <<4, 5>> >>),
                Die("Variable", FALSE, <<>>),
                NullDie,
                NullDie,
                NullDie>>,
     lines |-> (1 :> <<Row(1, 11), Row(2, 12), Row(3, 13), Row(4, 14), EndRow(5, 14)>>)]

\* Two units; the first has two discontiguous ranges whose sequences are
\* stored out of address order, the second lies between them.
DwOutOfOrder ==
    [info |-> <<Die("CompileUnit", TRUE, << <<0, 2>>, <<4, 6>> >>),
                Die("Subprogram", FALSE, << <<0, 2>> >>),
                Die("Subprogram", FALSE, << <<4, 6>> >>),
                NullDie,
                Die("CompileUnit", TRUE, << <<2, 4>> >>),
                Die("Subprogram", FALSE, << <<2, 4>> >>),
                NullDie>>,
     lines |-> (1 :> <<Row(4, 14), Row(5, 15), EndRow(6, 15),
                       Row(0, 10), Row(1, 11), EndRow(2, 11)>>)
            @@ (5 :> <<Row(2, 22), Row(3, 23), EndRow(4, 23)>>)]

\* One unit [0,6), one sequence; subprogram A has two discontiguous ranges
\* around subprogram B.
DwSplit ==
    [info |-> <<Die("CompileUnit", TRUE, << <<0, 6>> >>),
                Die("Subprogram", FALSE, << <<0, 2>>, <<4, 6>> >>),
                Die("Subprogram", FALSE, << <<2, 4>> >>),
                NullDie>>,
     lines |-> (1 :> <<Row(0, 10), Row(1, 11), Row(2, 12), Row(3, 13),
                       Row(4, 14), Row(5, 15), EndRow(6, 15)>>)]

\* One unit [0,3) whose sequence starts with two rows at one address.
DwSameAddress ==
    [info |-> <<Die("CompileUnit", TRUE, << <<0, 3>> >>),
                Die("Subprogram", FALSE, << <<0, 3>> >>),
                NullDie>>,
     lines |-> (1 :> <<Row(0, 10), Row(0, 20), Row(1, 11), Row(2, 12), EndRow(3, 12)>>)]

\* One unit with the single range [0,6) and two sequences, [0,2) and [4,6):
\* no row covers the addresses 2 and 3.
DwHole ==
    [info |-> <<Die("CompileUnit", TRUE, << <<0, 6>> >>),
                Die("Subprogram", FALSE, << <<0, 2>> >>),
                Die("Subprogram", FALSE, << <<4, 6>> >>),
                NullDie>>,
     lines |-> (1 :> <<Row(0, 10), Row(1, 11), EndRow(2, 11),
                       Row(4, 14), Row(5, 15), EndRow(6, 15)>>)]

\* One unit [0,6) whose subprogram has the ranges [0,2) and [4,6); the row
\* at address 1 covers everything up to the end of the sequence.
DwSpan ==
    [info |-> <<Die("CompileUnit", TRUE, << <<0, 6>> >>),
                Die("Subprogram", FALSE, << <<0, 2>>, <<4, 6>> >>),
                NullDie>>,
     lines |-> (1 :> <<Row(0, 10), Row(1, 11), EndRow(6, 11)>>)]

Worlds == {DwInlined, DwOutOfOrder, DwSplit, DwSameAddress, DwHole, DwSpan}

PCs == 0..MaxPC

\* The subprograms of dw: the entries AddrToSubprogram can return.
Subprograms(dw) ==
    {e \in 1..Len(dw.info) :
        /\ dw.info[e].Tag = "Subprogram"
        /\ dw.info[e - 1].Tag \in {"CompileUnit", "Subprogram", "Null"}
        /\ \E a \in PCs : AddrToSubprogram(dw, a, Nil) = e}

VARIABLES dw, lr, ret, trace, scope

lineVars == <<dw, lr, ret, trace, scope>>

\* The row the reader is on, as the caller sees it.
Reported(r) == [line |-> r.Line, stack |-> r.Stack]

NoScope == [op |-> "none", pc |-> 0, subprogram |-> Nil, nexts |-> 0]

InitLineVars ==
    /\ dw \in Worlds
    /\ lr = NewLineReader
    /\ ret = "none"
    /\ trace = <<>>
    /\ scope = NoScope

\* The caller's record of a seek that returned r.
Sought(r, op, pc, subprogram) ==
    /\ lr' = r.lr
    /\ ret' = r.err
    /\ trace' = IF r.err = "nil" THEN <<Reported(r.lr)>> ELSE <<>>
    /\ scope' = [op |-> op, pc |-> pc, subprogram |-> subprogram, nexts |-> 0]
    /\ UNCHANGED dw

\* lr.SeekPC(pc).
SeekPC(pc) == Sought(LRSeekPC(dw, lr, pc), "SeekPC", pc, Nil)

\* lr.SeekSubprogram(subprogram, pc).
SeekSubprogram(subprogram, pc) ==
    Sought(LRSeekSubprogram(dw, lr, subprogram, pc), "SeekSubprogram", pc, subprogram)

\* The caller's record of a Next that returned r.
Advanced(r) ==
    /\ lr' = r.lr
    /\ ret' = r.err
    /\ trace' = IF r.err = "nil" THEN Append(trace, Reported(r.lr)) ELSE trace
    /\ scope' = [scope EXCEPT !.nexts = @ + 1]
    /\ UNCHANGED dw

\* lr.Next(), called as long as the previous call returned nil.
Next ==
    /\ ret = "nil"
    /\ Len(trace) < MaxTrace
    /\ Advanced(LRNext(dw, lr))

(***************************************************************************)
(* Specification SpecInline: inlineRanges on the first subprogram of a     *)
(* unit whose children are drawn from the well-formed entry lists of up to *)
(* MaxBody entries.  A letter stands for an entry: "I" an inlined          *)
(* subroutine with children, "i" one without, "B" a lexical block, "v" a   *)
(* variable, "S" a nested subprogram, "0" the end of a list of children.   *)
(***************************************************************************)
MaxBody == 5

Letters == {"I", "i", "B", "v", "S", "0"}

LetterTag(c) ==
    IF c \in {"I", "i"} THEN "InlinedSubroutine"
    ELSE IF c = "B" THEN "LexicalBlock"
    ELSE IF c = "v" THEN "Variable"
    ELSE IF c = "S" THEN "Subprogram"
    ELSE "Null"

LetterChildren(c) == c \in {"I", "B", "S"}

\* The nesting depth after the first k letters of body, or -1 if a list of
\* children ends that never began.
RECURSIVE Depth(_, _)
Depth(body, k) ==
    IF k = 0 THEN 0
    ELSE IF Depth(body, k - 1) < 0 THEN -1
    ELSE IF body[k] = "0" THEN Depth(body, k - 1) - 1
    ELSE IF LetterChildren(body[k]) THEN Depth(body, k - 1) + 1
    ELSE Depth(body, k - 1)

Bodies ==
    UNION {{b \in [1..n -> Letters] : Depth(b, n) = 0} : n \in 0..MaxBody}

\* The entries of a unit: the subprogram at offset 2 with the children
\* body, then a sibling subprogram with an inlined subroutine of its own.
UnitEntries(body) ==
    <<Die("CompileUnit", TRUE, <<>>), Die("Subprogram", Len(body) > 0, <<>>)>>
    \o [k \in 1..Len(body) |-> Die(LetterTag(body[k]), LetterChildren(body[k]), <<>>)]
    \o (IF Len(body) > 0 THEN <<NullDie>> ELSE <<>>)
    \o <<Die("Subprogram", TRUE, <<>>), Die("InlinedSubroutine", FALSE, <<>>),
         NullDie, NullDie>>

\* Every subprogram and inlined subroutine given the PC range that spans
\* its own offset and those of its descendants, so that the ranges nest as
\* the entries do.
WithRanges(info) ==
    [k \in 1..Len(info) |->
        IF info[k].Tag \in {"Subprogram", "InlinedSubroutine"}
        THEN [info[k] EXCEPT !.Ranges = << <<k, afterEntry(info, k)>> >>]
        ELSE info[k]]

InlineInput(body) == [info |-> WithRanges(UnitEntries(body)), lines |-> <<>>]

TopSubprogram == 2

VARIABLES dies, built, inl

inlineVars == <<dies, built, inl>>

InitInlineVars ==
    /\ dies \in {InlineInput(b) : b \in Bodies}
    /\ built = FALSE
    /\ inl = NoInlineRanges

\* d.inlineRanges(subprogram) for the subprogram at offset 2.
BuildInlineRanges ==
    /\ ~built
    /\ built' = TRUE
    /\ inl' = [m |-> inlineRanges(dies, TopSubprogram).m,
               sites |-> inlineRanges(dies, TopSubprogram).sites]
    /\ UNCHANGED dies

(***************************************************************************)
(* obj: ELF sections and relocation sections.  A file is a record with     *)
(* relocatable, class and sections (the table after openElf): a section    *)
(* has Type, Alloc (SHF_ALLOC), Addr, Size, Info (sh_info: the section a   *)
(* relocation section applies to, 0 for all loadable sections) and Bytes,  *)
(* its contents: bytes, or for a relocation section its entries (Off the   *)
(* r_offset, Size what RelocType.Size() gives for the r_info type, Add the *)
(* r_addend field).  Addresses are uint64 in the source; the model keeps   *)
(* AddrBits bits of them.                                                  *)
(***************************************************************************)
AddrBits == 4

AddrSpace == 2 ^ AddrBits

\* elfSection.canHaveRelocs.
canHaveRelocs(s) == s.Type \in {"PROGBITS", "NOBITS", "LOPROC"}

\* The indices i of 1..n, in order, for which Test(i) holds.
Indices(n, Test(_)) == SelectSeq([i \in 1..n |-> i], Test)

\* openElf's relocSections of section s: the relocation sections, in the
\* order of the section table, that apply to all loadable sections or name
\* s as their target.
relocSectionsOf(f, s) ==
    Indices(Len(f.sections),
            LAMBDA r : /\ f.sections[r].Type \in {"REL", "RELA"}
                       /\ \/ /\ f.sections[r].Info = 0
                             /\ f.sections[s].Alloc
                             /\ canHaveRelocs(f.sections[s])
                          \/ /\ f.sections[r].Info = s
                             /\ canHaveRelocs(f.sections[s]))

\* openElf's rel.target of relocation section r (Nil for a global one).
relTarget(f, r) ==
    IF f.sections[r].Info # 0 /\ canHaveRelocs(f.sections[f.sections[r].Info])
    THEN f.sections[r].Info
    ELSE Nil

\* Whether openElf accepts the file.
openElf(f) ==
    \A r \in 1..Len(f.sections) :
        f.sections[r].Type \in {"REL", "RELA"} =>
            /\ f.sections[r].Info \in 0..Len(f.sections)
            /\ ~(f.relocatable /\ f.sections[r].Info = 0)

\* elfFile.ResolveAddr: the first loadable section containing addr.
ResolveAddr(f, addr) ==
    IF f.relocatable THEN Nil
    ELSE IF \E s \in 1..Len(f.sections) :
               /\ f.sections[s].Alloc
               /\ f.sections[s].Addr <= addr
               /\ addr - f.sections[s].Addr < f.sections[s].Size
    THEN CHOOSE s \in 1..Len(f.sections) :
            /\ f.sections[s].Alloc
            /\ f.sections[s].Addr <= addr
            /\ addr - f.sections[s].Addr < f.sections[s].Size
            /\ \A o \in 1..(s - 1) :
                 ~(/\ f.sections[o].Alloc
                   /\ f.sections[o].Addr <= addr
                   /\ addr - f.sections[o].Addr < f.sections[o].Size)
    ELSE Nil

\* The bits of the addend field of a 32-bit RELA entry in the model (32 in
\* the source); that of a 64-bit entry and an int64 have twice as many.
AddendBits == 4

Uint32Space == 2 ^ AddendBits

Uint64Space == 2 ^ (2 * AddendBits)

\* Reader.Int64: int64(r.Uint64()), the field u as a two's-complement
\* value.
ReaderInt64(u) == IF u >= Uint64Space \div 2 THEN u - Uint64Space ELSE u

\* The Addend elfReadRela32 and elfReadRela64 give for the field add:
\* int64(add) of the uint32 r.Uint32() returned, whose value it keeps, and
\* r.Int64().
relaAddend(class, add) == IF class = 32 THEN add ELSE ReaderInt64(add)

\* elfReadRel32/64 and elfReadRela32/64 over the section's data: the
\* entries as Relocs.  A REL entry has no addend yet.
elfRead(class, typ, data) ==
    [k \in 1..Len(data) |->
        [Addr |-> data[k].Off, Size |-> data[k].Size,
         Addend |-> IF typ = "RELA" THEN relaAddend(class, data[k].Add) ELSE 0]]

\* No sort: the relocs in the order of the entries.
sortRelocsNot(rs) == rs

\* sort.Slice of relocs by Addr.
RECURSIVE sortRelocs(_)
sortRelocs(rs) ==
    IF Len(rs) = 0 THEN rs
    ELSE LET i == CHOOSE j \in 1..Len(rs) :
                    /\ \A k \in 1..Len(rs) : rs[j].Addr <= rs[k].Addr
                    /\ \A k \in 1..(j - 1) : rs[k].Addr # rs[j].Addr
         IN <<rs[i]>> \o sortRelocs([k \in 1..(Len(rs) - 1) |->
                                        IF k < i THEN rs[k] ELSE rs[k + 1]])

\* A decoding result: the relocs and the error ("nil" for none).
Decoded(relocs, err) == [relocs |-> relocs, err |-> err, need |-> Nil]

\* A decoding that stands at sectionBytes of a section t whose bytes have
\* not been acquired yet.
Pending(t) == [relocs |-> <<>>, err |-> "pending", need |-> t]

\* readSectionRelUncached's adjustment of section offsets to addresses in
\* a relocatable file, from reloc i on.
RECURSIVE adjustAddrs(_, _, _)
adjustAddrs(relocs, base, i) ==
    IF i > Len(relocs) THEN Decoded(relocs, "nil")
    ELSE IF (relocs[i].Addr + base) % AddrSpace < base
         THEN Decoded(<<>>, "address overflow")
    ELSE adjustAddrs([relocs EXCEPT ![i].Addr = (@ + base) % AddrSpace], base, i + 1)

\* The little-endian integer in the n bytes of bytes from offset off (the
\* bytes of the modelled sections are below 128, so signed and unsigned
\* reads agree).
RECURSIVE LittleEndian(_, _, _)
LittleEndian(bytes, off, n) ==
    IF n = 0 THEN 0
    ELSE bytes[off + 1] + 256 * LittleEndian(bytes, off + 1, n - 1)

RECURSIVE populateFrom(_, _, _, _, _, _)
\* populateAddends' "fetch the addend" for reloc i at offset off of the
\* target's bytes.
populateFetch(f, sb, relocs, i, target, global, off) ==
    IF relocs[i].Size = 0
    THEN populateFrom(f, sb, [relocs EXCEPT ![i].Addend = 0], i + 1, target, global)
    ELSE IF relocs[i].Size \notin {1, 2, 4, 8}
    THEN Decoded(<<>>, "bad REL relocation size")
    ELSE IF off + relocs[i].Size > Len(sb[target].v)
    THEN Decoded(<<>>, "panic")
    ELSE populateFrom(f, sb,
                      [relocs EXCEPT ![i].Addend =
                          LittleEndian(sb[target].v, off, relocs[i].Size)],
                      i + 1, target, global)

\* populateAddends' "load the section data" of the target established
\* (every reloc reads the bytes sectionBytes cached for its target).
populateLoad(f, sb, relocs, i, target, global, off) ==
    IF ~sb[target].done THEN Pending(target)
    ELSE IF sb[target].err # "nil" THEN Decoded(<<>>, "reading target section")
    ELSE populateFetch(f, sb, relocs, i, target, global, off)

\* populateAddends in a global relocation section that moved on to the
\* section t that ResolveAddr gave.
populateResolved(f, sb, relocs, i, t) ==
    IF t = Nil THEN Decoded(<<>>, "address is not in any section")
    ELSE populateLoad(f, sb, relocs, i, t, TRUE,
                      (relocs[i].Addr - f.sections[t].Addr) % AddrSpace)

\* populateAddends' bounds check of reloc i against the target (the empty
\* nullSection for Nil), off being Addr - target.Addr.
populateBounds(f, sb, relocs, i, target, global, off, tSize) ==
    IF (relocs[i].Size # 0 /\ off >= tSize)
       \/ (off + relocs[i].Size) % AddrSpace > tSize
    THEN IF global
         THEN populateResolved(f, sb, relocs, i, ResolveAddr(f, relocs[i].Addr))
         ELSE Decoded(<<>>, "out of section bounds")
    ELSE populateLoad(f, sb, relocs, i, target, global, off)

\* populateAddends from reloc i on, target being the current target
\* section (Nil for nullSection), global whether the relocation section
\* is global, and sb what sectionBytes has cached for each section.
populateFrom(f, sb, relocs, i, target, global) ==
    IF i > Len(relocs) THEN Decoded(relocs, "nil")
    ELSE IF relocs[i].Size = -1 THEN Decoded(<<>>, "unknown relocation type")
    ELSE populateBounds(f, sb, relocs, i, target, global,
                        (relocs[i].Addr
                           - (IF target = Nil THEN 0 ELSE f.sections[target].Addr))
                          % AddrSpace,
                        IF target = Nil THEN 0 ELSE f.sections[target].Size)

\* elfFile.populateAddends of relocation section r.
populateAddends(f, sb, r, relocs) ==
    populateFrom(f, sb, relocs, 1, relTarget(f, r), relTarget(f, r) = Nil)

\* readSectionRelUncached after the adjustment: the addends of a REL
\* section.
readPopulate(f, sb, r, d) ==
    IF d.err = "nil" /\ f.sections[r].Type = "REL"
    THEN populateAddends(f, sb, r, d.relocs)
    ELSE d

\* readSectionRelUncached after the sort.
readAdjust(f, sb, r, relocs) ==
    IF f.relocatable /\ f.sections[r].Addr # 0
    THEN readPopulate(f, sb, r, adjustAddrs(relocs, f.sections[r].Addr, 1))
    ELSE readPopulate(f, sb, r, Decoded(relocs, "nil"))

\* elfFile.readSectionRelUncached of relocation section r, whose own
\* bytes sb[r] Section.Data has returned (no relocation section applies
\* to a relocation section, so its Data fails only on its bytes).
readSectionRelUncached(f, sb, r) ==
    IF sb[r].err # "nil" THEN Decoded(<<>>, sb[r].err)
    ELSE readAdjust(f, sb, r, sortRelocs(elfRead(f.class, f.sections[r].Type, sb[r].v)))

\* sectionRelocs' test of whether the relocs rs of one relocation section
\* apply to the range of section s.
applies(sec, rs) ==
    /\ rs[1].Addr <= (sec.Addr + sec.Size) % AddrSpace
    /\ rs[Len(rs)].Addr > sec.Addr

\* sectionRelocs' todo list from the decoded relocation sections all.
RECURSIVE todoOf(_, _)
todoOf(sec, all) ==
    IF Len(all) = 0 THEN <<>>
    ELSE IF Len(Head(all)) # 0 /\ applies(sec, Head(all))
         THEN <<Head(all)>> \o todoOf(sec, Tail(all))
         ELSE todoOf(sec, Tail(all))

RECURSIVE concatAll(_)
concatAll(todo) ==
    IF Len(todo) = 0 THEN <<>> ELSE Head(todo) \o concatAll(Tail(todo))

\* sectionRelocs' merge of the todo list.
mergeTodo(todo) ==
    IF Len(todo) = 1 THEN todo[1] ELSE sortRelocs(concatAll(todo))

(***************************************************************************)
(* obj: Section.Data called from several threads on one open file.  The    *)
(* lazily filled caches of a section are its bytes (dataOnce), the decoded *)
(* relocs of a relocation section (rel.once) and the merged relocs of a    *)
(* section with several relocation sections (relocsOnce).                  *)
(***************************************************************************)
MaxThreads == 2

MaxCalls == 2

Threads == 1..MaxThreads

Sec(typ, alloc, addr, size, info, bytes) ==
    [Type |-> typ, Alloc |-> alloc, Addr |-> addr, Size |-> size,
     Info |-> info, Bytes |-> bytes]

RelEntry(off, size, add) == [Off |-> off, Size |-> size, Add |-> add]

Text == Sec("PROGBITS", TRUE, 2, 4, 0, <<1, 2, 3, 4>>)

\* One REL section for .text, every relocation in bounds.
FilePlain ==
    [relocatable |-> FALSE, class |-> 64,
     sections |-> <<Text,
                    Sec("REL", FALSE, 0, 2, 1,
                        <<RelEntry(4, 2, 0), RelEntry(2, 1, 0)>>)>>]

\* A REL section with a relocation of a type unknown to the architecture.
FileUnknownType ==
    [relocatable |-> FALSE, class |-> 64,
     sections |-> <<Text,
                    Sec("REL", FALSE, 0, 2, 1,
                        <<RelEntry(2, 1, 0), RelEntry(3, -1, 0)>>)>>]

\* A REL section with a relocation outside its target section.
FileOutOfBounds ==
    [relocatable |-> FALSE, class |-> 64,
     sections |-> <<Text,
                    Sec("REL", FALSE, 0, 1, 1, <<RelEntry(7, 1, 0)>>)>>]

\* A relocatable file whose RELA section has an address that takes an
\* offset past the end of the address space.
FileOverflow ==
    [relocatable |-> TRUE, class |-> 64,
     sections |-> <<Sec("PROGBITS", TRUE, 0, 4, 0, <<1, 2, 3, 4>>),
                    Sec("RELA", FALSE, AddrSpace - 2, 1, 1,
                        <<RelEntry(3, 4, 1)>>)>>]

\* Two loadable sections, a RELA section for .text and a REL section for
\* all loadable sections.
FileMerged ==
    [relocatable |-> FALSE, class |-> 64,
     sections |-> <<Text,
                    Sec("PROGBITS", TRUE, 8, 2, 0, <<5, 6>>),
                    Sec("RELA", FALSE, 0, 1, 1, <<RelEntry(3, 4, 1)>>),
                    Sec("REL", FALSE, 0, 2, 0,
                        <<RelEntry(8, 2, 0), RelEntry(2, 1, 0)>>)>>]

\* The same with a relocation in no section in the global REL section.
FileMergedBad ==
    [relocatable |-> FALSE, class |-> 64,
     sections |-> <<Text,
                    Sec("NOBITS", TRUE, 8, 2, 0, <<0, 0>>),
                    Sec("RELA", FALSE, 0, 1, 1, <<RelEntry(3, 4, 1)>>),
                    Sec("REL", FALSE, 0, 2, 0,
                        <<RelEntry(2, 1, 0), RelEntry(7, 1, 0)>>)>>]

\* A relocatable file with two RELA sections for .text, one of them with
\* an address of its own.
FileRelocatable ==
    [relocatable |-> TRUE, class |-> 64,
     sections |-> <<Sec("PROGBITS", TRUE, 0, 6, 0, <<1, 2, 3, 4, 5, 6>>),
                    Sec("RELA", FALSE, 2, 2, 1,
                        <<RelEntry(3, 4, 1), RelEntry(1, 4, 2)>>),
                    Sec("RELA", FALSE, 0, 2, 1,
                        <<RelEntry(4, 4, 3), RelEntry(2, 4, 4)>>)>>]

\* Two RELA sections for .text, the only relocation of the first at the
\* first byte of .text.
FileBoundary ==
    [relocatable |-> FALSE, class |-> 64,
     sections |-> <<Text,
                    Sec("RELA", FALSE, 0, 1, 1, <<RelEntry(2, 4, 1)>>),
                    Sec("RELA", FALSE, 0, 1, 1, <<RelEntry(3, 4, 2)>>)>>]

\* A REL section for all loadable sections with a two-byte relocation at
\* the last byte of .text.
FileGlobalPast ==
    [relocatable |-> FALSE, class |-> 64,
     sections |-> <<Text,
                    Sec("REL", FALSE, 0, 1, 0, <<RelEntry(5, 2, 0)>>)>>]

\* A relocatable file whose .text has an address and whose RELA section
\* has none.
FileRelocatableAt ==
    [relocatable |-> TRUE, class |-> 64,
     sections |-> <<Text,
                    Sec("RELA", FALSE, 0, 1, 1, <<RelEntry(1, 4, 1)>>)>>]

Files == {f \in {FilePlain, FileUnknownType, FileOutOfBounds, FileOverflow,
                 FileMerged, FileMergedBad, FileRelocatable, FileBoundary,
                 FileGlobalPast, FileRelocatableAt} :
             openElf(f)}

VARIABLES file, once, runs, cache, th, seen

elfVars == <<file, once, runs, cache, th, seen>>

Caches(f) == {"data", "rel", "relocs"} \X (1..Len(f.sections))

\* The fields of a cache before its fill: a nil slice and a nil error.
\* buf tells the slices of different fill runs apart.
NoVal == [v |-> <<>>, err |-> "nil", buf |-> 0]

NotSeen == [v |-> <<>>, err |-> "none", buf |-> 0]

NoOut == [err |-> "none", populated |-> FALSE, P |-> <<>>, R |-> <<>>]

NewThread ==
    [pc |-> "idle", s |-> Nil, r |-> Nil, k |-> 0, acc |-> <<>>, want |-> Nil,
     cont |-> "none", calls |-> 0, waited |-> {}, out |-> NoOut]

InitElfVars ==
    /\ file \in Files
    /\ once = [c \in Caches(file) |-> "idle"]
    /\ runs = [c \in Caches(file) |-> 0]
    /\ cache = [c \in Caches(file) |-> NoVal]
    /\ th = [t \in Threads |-> NewThread]
    /\ seen = [t \in Threads |-> [c \in Caches(file) |-> NotSeen]]

\* A Once without its mutex: Do runs f whenever no run has returned yet.
OnceIdleUnlocked(c) == once[c] # "done"

\* sync.Once: whether Do finds the Once not yet run and runs f.
OnceIdle(c) == once[c] = "idle"

\* What sectionBytes has cached for each section.
SectionBytesView ==
    [s \in 1..Len(file.sections) |->
        [v |-> cache[<<"data", s>>].v, err |-> cache[<<"data", s>>].err,
         done |-> once[<<"data", s>>] = "done"]]

\* Once.Do on cache c by thread t, which goes on at donePc when the Once
\* has run, runs the fill at fillPc (in the thread state fill) when it is
\* the first, and otherwise blocks until the running fill has returned.
OnceDo(t, c, donePc, fill) ==
    \/ /\ once[c] = "done"
       /\ th' = [th EXCEPT ![t].pc = donePc]
       /\ seen' = [seen EXCEPT ![t][c] = cache[c]]
       /\ UNCHANGED <<once, runs, cache>>
    \/ /\ OnceIdle(c)
       /\ once' = [once EXCEPT ![c] = "running"]
       /\ th' = [th EXCEPT ![t] = fill]
       /\ UNCHANGED <<runs, cache, seen>>
    \/ /\ once[c] = "running"
       /\ c \notin th[t].waited
       /\ th' = [th EXCEPT ![t].waited = @ \cup {c}]
       /\ UNCHANGED <<once, runs, cache, seen>>

\* A fill whose failure leaves the Once to run again.
FilledRetried(c, v, err) ==
    /\ once' = [once EXCEPT ![c] = IF err = "nil" THEN "done" ELSE "idle"]
    /\ runs' = [runs EXCEPT ![c] = @ + 1]
    /\ cache' = [cache EXCEPT ![c] = [v |-> v, err |-> err, buf |-> runs[c] + 1]]

\* The end of the fill of cache c with slice v and error err.
Filled(c, v, err) ==
    /\ once' = [once EXCEPT ![c] = "done"]
    /\ runs' = [runs EXCEPT ![c] = @ + 1]
    /\ cache' = [cache EXCEPT ![c] = [v |-> v, err |-> err, buf |-> runs[c] + 1]]

\* Section.Data(s.Bounds()) of section s called by thread t.
Call(t, s) ==
    /\ th[t].pc \in {"idle", "done"}
    /\ th[t].calls < MaxCalls
    /\ th' = [th EXCEPT ![t] = [@ EXCEPT !.pc = "bytes", !.s = s, !.want = s,
                                         !.cont = "relocs", !.out = NoOut,
                                         !.calls = @ + 1]]
    /\ UNCHANGED <<file, once, runs, cache, seen>>

\* elfFile.sectionBytes of section th[t].want.
SectionBytes(t) ==
    /\ th[t].pc = "bytes"
    /\ OnceDo(t, <<"data", th[t].want>>, th[t].cont,
              [th[t] EXCEPT !.pc = "fillBytes"])
    /\ UNCHANGED file

\* The errors sectionBytesUncached can return for section sec: none for a
\* NOBITS section, that of ioutil.ReadAll for others.
ReadErrors(sec) ==
    IF sec.Type = "NOBITS" THEN {"nil"} ELSE {"nil", "read error"}

\* sectionBytesUncached as the fill of dataOnce, and sectionBytes' return.
FillBytes(t) ==
    /\ th[t].pc = "fillBytes"
    /\ \E err \in ReadErrors(file.sections[th[t].want]) :
          Filled(<<"data", th[t].want>>,
                 IF err = "nil" THEN file.sections[th[t].want].Bytes ELSE <<>>,
                 err)
    /\ th' = [th EXCEPT ![t].pc = th[t].cont]
    /\ seen' = [seen EXCEPT ![t][<<"data", th[t].want>>] =
                                cache'[<<"data", th[t].want>>]]
    /\ UNCHANGED file

\* sectionData and elfSectionData returning to the caller of Section.Data:
\* err is what elfSectionData returns, and with a nil err the Data is
\* constructed from the bytes and relocs.
Returned(t, err, bytes, relocs) ==
    [th[t] EXCEPT !.pc = "done",
                  !.out = IF err # "nil"
                          THEN [err |-> err, populated |-> FALSE,
                                P |-> <<>>, R |-> <<>>]
                          ELSE [err |-> "nil", populated |-> TRUE,
                                P |-> bytes, R |-> relocs]]

\* elfSectionData after sectionRelocs returned relocs and err: on an error
\* it returns s.dataErr.
AfterSectionRelocs(t, relocs, err) ==
    IF err # "nil"
    THEN [Returned(t, cache[<<"data", th[t].s>>].err, <<>>, <<>>)
            EXCEPT !.out.populated = FALSE]
    ELSE Returned(t, "nil", cache[<<"data", th[t].s>>].v, relocs)

\* sectionRelocs' switch on the relocation sections rs of the section.
sectionRelocsSwitch(t, rs) ==
    IF Len(rs) = 0 THEN AfterSectionRelocs(t, <<>>, "nil")
    ELSE IF Len(rs) = 1
    THEN [th[t] EXCEPT !.pc = "rel", !.r = rs[1], !.k = 0]
    ELSE [th[t] EXCEPT !.pc = "relocsOnce"]

\* elfSectionData after sectionBytes: it returns s.dataErr on an error and
\* goes on to sectionRelocs otherwise.
SectionRelocs(t) ==
    /\ th[t].pc = "relocs"
    /\ th' = [th EXCEPT ![t] =
                IF cache[<<"data", th[t].s>>].err # "nil"
                THEN Returned(t, cache[<<"data", th[t].s>>].err, <<>>, <<>>)
                ELSE sectionRelocsSwitch(t, relocSectionsOf(file, th[t].s))]
    /\ UNCHANGED <<file, once, runs, cache, seen>>

\* elfFile.readSectionRel of relocation section th[t].r, whose fill begins
\* with Section.Data on the relocation section itself.
ReadSectionRel(t) ==
    /\ th[t].pc = "rel"
    /\ OnceDo(t, <<"rel", th[t].r>>, "afterRel",
              [th[t] EXCEPT !.pc = "bytes", !.want = th[t].r, !.cont = "decode"])
    /\ UNCHANGED file

\* A panic in the fill of rel.once: sync.Once.Do marks the Once of every
\* fill on the stack (cs) as done on the way up, their fields keep the nil
\* slice and the nil error, and the panic reaches the caller of
\* Section.Data.
fillPanicked(t, cs) ==
    /\ once' = [c \in DOMAIN once |-> IF c \in cs THEN "done" ELSE once[c]]
    /\ runs' = [c \in DOMAIN runs |-> IF c \in cs THEN runs[c] + 1 ELSE runs[c]]
    /\ th' = [th EXCEPT ![t].pc = "panicked"]
    /\ UNCHANGED <<cache, seen>>

\* The fill of rel.once with the decoding d, or sectionBytes of the target
\* section that populateAddends has come to.
decodeWith(t, d) ==
    IF d.err = "pending"
    THEN /\ th' = [th EXCEPT ![t] = [@ EXCEPT !.pc = "bytes", !.want = d.need,
                                              !.cont = "decode"]]
         /\ UNCHANGED <<once, runs, cache, seen>>
    ELSE IF d.err = "panic"
    THEN fillPanicked(t, IF th[t].k = 0
                         THEN {<<"rel", th[t].r>>}
                         ELSE {<<"rel", th[t].r>>, <<"relocs", th[t].s>>})
    ELSE /\ Filled(<<"rel", th[t].r>>, d.relocs, d.err)
         /\ th' = [th EXCEPT ![t].pc = "afterRel"]
         /\ seen' = [seen EXCEPT ![t][<<"rel", th[t].r>>] =
                                     cache'[<<"rel", th[t].r>>]]

\* readSectionRelUncached as the fill of rel.once, and readSectionRel's
\* return.
Decode(t) ==
    /\ th[t].pc = "decode"
    /\ decodeWith(t, readSectionRelUncached(file, SectionBytesView, th[t].r))
    /\ UNCHANGED file

\* The end of the fill of relocsOnce.
relocsFilled(t, relocs, err) ==
    /\ Filled(<<"relocs", th[t].s>>, relocs, err)
    /\ th' = [th EXCEPT ![t].pc = "afterRelocs"]
    /\ seen' = [seen EXCEPT ![t][<<"relocs", th[t].s>>] =
                                cache'[<<"relocs", th[t].s>>]]

\* The loop of relocsOnce's fill after readSectionRel returned v for the
\* k'th of the relocation sections rs.
relocsLoop(t, v, rs) ==
    IF v.err # "nil" THEN relocsFilled(t, <<>>, v.err)
    ELSE IF th[t].k = Len(rs)
    THEN relocsFilled(t,
                      mergeTodo(todoOf(file.sections[th[t].s],
                                       Append(th[t].acc, v.v))),
                      "nil")
    ELSE /\ th' = [th EXCEPT ![t] = [@ EXCEPT !.pc = "rel", !.k = @ + 1,
                                              !.r = rs[th[t].k + 1],
                                              !.acc = Append(@, v.v)]]
         /\ UNCHANGED <<once, runs, cache, seen>>

\* What follows readSectionRel's return of v: sectionRelocs with one
\* relocation section returns v, and the fill of relocsOnce goes on with
\* its loop.
afterRelWith(t, v) ==
    IF th[t].k = 0
    THEN /\ th' = [th EXCEPT ![t] = AfterSectionRelocs(t, v.v, v.err)]
         /\ UNCHANGED <<once, runs, cache, seen>>
    ELSE relocsLoop(t, v, relocSectionsOf(file, th[t].s))

AfterRel(t) ==
    /\ th[t].pc = "afterRel"
    /\ afterRelWith(t, cache[<<"rel", th[t].r>>])
    /\ UNCHANGED file

\* sectionRelocs' relocsOnce of a section with several relocation
\* sections.
RelocsOnce(t) ==
    /\ th[t].pc = "relocsOnce"
    /\ OnceDo(t, <<"relocs", th[t].s>>, "afterRelocs",
              [th[t] EXCEPT !.pc = "rel", !.k = 1, !.acc = <<>>,
                            !.r = relocSectionsOf(file, th[t].s)[1]])
    /\ UNCHANGED file

\* sectionRelocs' return of s.relocs and s.relocsErr to elfSectionData.
Return(t) ==
    /\ th[t].pc = "afterRelocs"
    /\ th' = [th EXCEPT ![t] =
                AfterSectionRelocs(t, cache[<<"relocs", th[t].s>>].v,
                                   cache[<<"relocs", th[t].s>>].err)]
    /\ UNCHANGED <<file, once, runs, cache, seen>>

(***************************************************************************)
(* dbg: Data.inlineRanges called from several threads.  A map is the index *)
(* in heap of the tree one call built; inlineRangesCache gives for each    *)
(* subprogram entry the map stored (Nil for none).  lineTable is the error *)
(* the decoding of the unit's line table ends with ("nil" for none); ltc   *)
(* is the lineTableCache of each unit and ensured the error ensure last    *)
(* returned to each thread.                                                *)
(***************************************************************************)
VARIABLES inlineRangesCache, lineTable, heap, callers, stored, ltc, ensured

cacheVars == <<inlineRangesCache, lineTable, heap, callers, stored, ltc, ensured>>

\* The units of the subprograms.
CacheUnits == {SubprogramCU(DwInlined, e) : e \in Subprograms(DwInlined)}

\* A lineTableCache before ensure.
NewLineTableCache ==
    [once |-> "idle", runs |-> 0, err |-> "nil", waypoints |-> <<>>]

NewCaller ==
    [pc |-> "idle", entry |-> Nil, m |-> Nil, result |-> Nil, calls |-> 0]

InitCacheVars ==
    /\ inlineRangesCache = [e \in Subprograms(DwInlined) |-> Nil]
    /\ lineTable \in {"nil", "decoding line table header"}
    /\ heap = <<>>
    /\ callers = [t \in Threads |-> NewCaller]
    /\ stored = [e \in Subprograms(DwInlined) |-> <<>>]
    /\ ltc = [cu \in CacheUnits |-> NewLineTableCache]
    /\ ensured = [t \in Threads |-> "none"]

\* A LoadOrStore that never finds the key present and always stores.
LoadedNever(e) == FALSE

\* sync.Map.LoadOrStore's loaded result: whether the key is present.
Loaded(e) == inlineRangesCache[e] # Nil

\* d.inlineRanges(subprogram) called by thread t.
CallInlineRanges(t, subprogram) ==
    /\ callers[t].pc \in {"idle", "returned"}
    /\ callers[t].calls < MaxCalls
    /\ callers' = [callers EXCEPT ![t] =
                      [pc |-> "load", entry |-> subprogram, m |-> Nil,
                       result |-> Nil, calls |-> @.calls + 1]]
    /\ UNCHANGED <<inlineRangesCache, lineTable, heap, stored, ltc, ensured>>

\* inlineRanges' check of the cache.
CacheLoad(t) ==
    /\ callers[t].pc = "load"
    /\ callers' = [callers EXCEPT ![t] =
                      IF inlineRangesCache[callers[t].entry] # Nil
                      THEN [@ EXCEPT !.pc = "returned",
                                     !.result = inlineRangesCache[callers[t].entry]]
                      ELSE [@ EXCEPT !.pc = "ensure"]]
    /\ UNCHANGED <<inlineRangesCache, lineTable, heap, stored, ltc, ensured>>

\* lineTableCache.ensure's once.Do for the unit of thread t's subprogram:
\* it returns lc.err when the Once has run, runs the fill when it is the
\* first, and otherwise blocks until the running fill has returned.
ensureDo(t, cu) ==
    \/ /\ ltc[cu].once = "done"
       /\ callers' = [callers EXCEPT ![t].pc = "build"]
       /\ ensured' = [ensured EXCEPT ![t] = ltc[cu].err]
       /\ UNCHANGED ltc
    \/ /\ ltc[cu].once = "idle"
       /\ ltc' = [ltc EXCEPT ![cu].once = "running"]
       /\ callers' = [callers EXCEPT ![t].pc = "fillLineTable"]
       /\ UNCHANGED ensured

CacheEnsure(t) ==
    /\ callers[t].pc = "ensure"
    /\ ensureDo(t, SubprogramCU(DwInlined, callers[t].entry))
    /\ UNCHANGED <<inlineRangesCache, lineTable, heap, stored>>

\* The fill of lineTableCache.once with the error err of the decoding.
ensureFilled(t, cu, err) ==
    /\ ltc' = [ltc EXCEPT ![cu] =
                  [once |-> "done", runs |-> @.runs + 1, err |-> err,
                   waypoints |-> IF err = "nil" THEN ensure(DwInlined.lines[cu])
                                 ELSE <<>>]]
    /\ ensured' = [ensured EXCEPT ![t] = err]

\* The function ensure passes to once.Do, and ensure's return.
CacheFillLineTable(t) ==
    /\ callers[t].pc = "fillLineTable"
    /\ ensureFilled(t, SubprogramCU(DwInlined, callers[t].entry), lineTable)
    /\ callers' = [callers EXCEPT ![t].pc = "build"]
    /\ UNCHANGED <<inlineRangesCache, lineTable, heap, stored>>

\* The map inlineRanges' loop built.
builtMap(s) == [m |-> s.m, sites |-> s.sites]

\* inlineRanges from ensure's return to the end of its loop: it returns an
\* empty Imap (Nil) when ensure failed and otherwise has built a map of its
\* own.
CacheBuild(t) ==
    /\ callers[t].pc = "build"
    /\ IF ensured[t] # "nil"
       THEN /\ callers' = [callers EXCEPT ![t].pc = "returned"]
            /\ UNCHANGED heap
       ELSE /\ heap' = Append(heap, builtMap(inlineRanges(DwInlined, callers[t].entry)))
            /\ callers' = [callers EXCEPT ![t] =
                              [@ EXCEPT !.pc = "store", !.m = Len(heap) + 1]]
    /\ UNCHANGED <<inlineRangesCache, lineTable, stored, ltc, ensured>>

\* inlineRanges' update of the cache: LoadOrStore returns the map present,
\* or stores the caller's.
CacheLoadOrStore(t) ==
    /\ callers[t].pc = "store"
    /\ IF Loaded(callers[t].entry)
       THEN /\ callers' = [callers EXCEPT ![t] =
                              [@ EXCEPT !.pc = "returned",
                                        !.result = inlineRangesCache[callers[t].entry]]]
            /\ UNCHANGED <<inlineRangesCache, stored>>
       ELSE /\ inlineRangesCache' =
                  [inlineRangesCache EXCEPT ![callers[t].entry] = callers[t].m]
            /\ stored' = [stored EXCEPT ![callers[t].entry] = Append(@, callers[t].m)]
            /\ callers' = [callers EXCEPT ![t] =
                              [@ EXCEPT !.pc = "returned", !.result = callers[t].m]]
    /\ UNCHANGED <<lineTable, heap, ltc, ensured>>

(***************************************************************************)
(* Functions applied to one input: input is the argument, applied whether  *)
(* the function has returned, and output what it returned.                 *)
(***************************************************************************)
VARIABLES input, output, applied

pureVars == <<input, output, applied>>

MaxEntries == 2

\* The addend fields of the entries read: all of a 32-bit entry, and of a
\* 64-bit entry those around zero and around the sign bit.
AddendFields(class) ==
    IF class = 32 THEN 0..(Uint32Space - 1)
    ELSE {0, 1, Uint64Space \div 2 - 1, Uint64Space \div 2, Uint64Space - 1}

\* The contents of a relocation section of a file of the class.
RelData(class) ==
    UNION {[1..n -> {RelEntry(n - 1, 4, add) : add \in AddendFields(class)}] :
              n \in 1..MaxEntries}

InitRelaVars ==
    /\ input \in {[class |-> class, typ |-> typ, data |-> data] :
                      class \in {32}, typ \in {"REL", "RELA"}, data \in RelData(32)}
                \cup {[class |-> class, typ |-> typ, data |-> data] :
                      class \in {64}, typ \in {"REL", "RELA"}, data \in RelData(64)}
    /\ output = <<>>
    /\ applied = FALSE

\* readSectionRelUncached's switch on the section type and the class.
ReadRel ==
    /\ ~applied
    /\ applied' = TRUE
    /\ output' = elfRead(input.class, input.typ, input.data)
    /\ UNCHANGED input

(***************************************************************************)
(* obj: elfFile.Sym.  A symbol table entry has stType (ST_TYPE of st_info) *)
(* and shn (st_shndx); es is what lookupShn gives for shn: ok, and the     *)
(* Flags and Type of the section.                                          *)
(***************************************************************************)
\* Sym's switch on the section flags WRITE, ALLOC and EXECINSTR.
kindByFlags(es) ==
    IF es.Flags \cap {"WRITE", "ALLOC", "EXECINSTR"} = {"ALLOC", "EXECINSTR"}
    THEN "SymText"
    ELSE IF es.Flags \cap {"WRITE", "ALLOC", "EXECINSTR"} = {"ALLOC"}
    THEN "SymROData"
    ELSE IF es.Flags \cap {"WRITE", "ALLOC", "EXECINSTR"} = {"ALLOC", "WRITE"}
    THEN IF es.Type = "NOBITS" THEN "SymBSS" ELSE "SymData"
    ELSE "SymUnknown"

\* Sym's derivation of the kind.
symKind(stType, shn, es) ==
    IF stType = "STT_SECTION" THEN "SymSection"
    ELSE IF shn = "SHN_UNDEF" THEN "SymUndef"
    ELSE IF shn = "SHN_COMMON" THEN "SymBSS"
    ELSE IF shn = "SHN_ABS" THEN "SymAbsolute"
    ELSE IF ~es.ok THEN "SymUnknown"
    ELSE kindByFlags(es)

\* What lookupShn gives for a section number without a section.
NoElfSection == [ok |-> FALSE, Flags |-> {}, Type |-> "SHT_NULL"]

\* The sections a symbol may be defined in.
SymSections ==
    {[ok |-> TRUE, Flags |-> flags, Type |-> typ] :
        flags \in SUBSET {"WRITE", "ALLOC", "EXECINSTR", "MERGE"},
        typ \in {"PROGBITS", "NOBITS", "INIT_ARRAY", "NOTE"}}

InitSymVars ==
    /\ input \in {[stType |-> stType, shn |-> "section", es |-> es] :
                      stType \in {"STT_NOTYPE", "STT_OBJECT", "STT_FUNC", "STT_SECTION"},
                      es \in SymSections \cup {NoElfSection}}
                \cup {[stType |-> stType, shn |-> shn, es |-> NoElfSection] :
                      stType \in {"STT_NOTYPE", "STT_OBJECT", "STT_FUNC", "STT_SECTION"},
                      shn \in {"SHN_UNDEF", "SHN_COMMON", "SHN_ABS"}}
    /\ output = <<>>
    /\ applied = FALSE

\* elfFile.Sym: the Kind and the Section of the symbol.
Sym ==
    /\ ~applied
    /\ applied' = TRUE
    /\ output' = [Kind |-> symKind(input.stType, input.shn, input.es),
                  Section |-> input.es.ok]
    /\ UNCHANGED input

(***************************************************************************)
(* obj: elfSymTab.lookup.  A SymID is a uint32 in the source; the model    *)
(* keeps SymBits bits of it.                                               *)
(***************************************************************************)
SymBits == 3

SymSpace == 2 ^ SymBits

\* NoSym: ^SymID(0).
NoSym == SymSpace - 1

\* An elfSymTab with the global index range [start, end).
SymTab(start, end) == [start |-> start, end |-> end]

\* emptyElfSymTab.
emptyElfSymTab == SymTab(0, 0)

\* openElf's index range of a symbol table that follows nSyms symbols: n
\* is the number of entries of its section, the null symbol among them, or
\* Nil when the file has no such table.
symTabAfter(nSyms, n) ==
    IF n = Nil THEN SymTab(nSyms, nSyms)
    ELSE SymTab(nSyms, (nSyms + (n - 1)) % SymSpace)

\* openElf's f.symTabs for the entry counts n1 of .symtab and n2 of
\* .dynsym.
symTabs(n1, n2) ==
    <<symTabAfter(0, n1), symTabAfter(symTabAfter(0, n1).end, n2)>>

\* The range test without its lower bound.
inRangeBelowEnd(tab, symID) == symID < tab.end

\* lookup's test of symID against the range of the table.
inRange(tab, symID) == tab.start <= symID /\ symID < tab.end

\* lookup's result for the symID computed.
lookupResult(tab, symID) ==
    IF inRange(tab, symID) THEN [id |-> symID, ok |-> TRUE]
    ELSE [id |-> NoSym, ok |-> FALSE]

\* elfSymTab.lookup.
lookup(tab, elfSym) ==
    lookupResult(tab, (elfSym + SymSpace - 1 + tab.start) % SymSpace)

\* The entry counts of the symbol tables of a file: each table has its
\* null symbol, and the symbols of both have SymIDs below NoSym.
SymCounts ==
    {c \in ({Nil} \cup (1..(SymSpace - 1))) \X ({Nil} \cup (1..(SymSpace - 1))) :
        (IF c[1] = Nil THEN 0 ELSE c[1] - 1) + (IF c[2] = Nil THEN 0 ELSE c[2] - 1)
            < NoSym}

InitLookupVars ==
    /\ input \in {[tab |-> tab, elfSym |-> e] :
                      tab \in {emptyElfSymTab}
                               \cup UNION {{symTabs(c[1], c[2])[1], symTabs(c[1], c[2])[2]} :
                                              c \in SymCounts},
                      e \in 0..(SymSpace - 1)}
    /\ output = <<>>
    /\ applied = FALSE

Lookup ==
    /\ ~applied
    /\ applied' = TRUE
    /\ output' = lookup(input.tab, input.elfSym)
    /\ UNCHANGED input

(***************************************************************************)
(* obj: SynthesizeSizes.  A Sym is a record of its Section (an index into  *)
(* SizeSections, Nil for none), Kind, Value, Size and the size-synthesized *)
(* flag.  sort.Slice leaves the order of equal elements open, so the       *)
(* sorted todo list is any order of the indices that less agrees with.     *)
(***************************************************************************)
MaxSyms == 3

MaxValue == 4

\* The sections of the file: ID, Addr and Size.
SizeSections ==
    <<[ID |-> 1, Addr |-> 1, Size |-> 2], [ID |-> 2, Addr |-> 2, Size |-> 1]>>

\* Section.Addr + Section.Size of the section of a symbol.
sectionEnd(sym) == SizeSections[sym.Section].Addr + SizeSections[sym.Section].Size

\* The first loop's treatment of one symbol: a Section-kind symbol at the
\* base of its section with no size gets the section's size.
sizeSectionSym(sym) ==
    IF /\ sym.Section # Nil
       /\ sym.Kind = "SymSection"
       /\ sym.Value = SizeSections[sym.Section].Addr
       /\ sym.Size = 0
    THEN [sym EXCEPT !.Size = SizeSections[sym.Section].Size, !.synth = TRUE]
    ELSE sym

\* Every symbol with a section that is not of Section kind, past the end
\* of its section or not.
sizeTodoAll(syms) ==
    {i \in DOMAIN syms : syms[i].Section # Nil /\ syms[i].Kind # "SymSection"}

\* The indices the first loop appends to todo.
sizeTodo(syms) ==
    {i \in DOMAIN syms :
        /\ syms[i].Section # Nil
        /\ syms[i].Kind # "SymSection"
        /\ ~(syms[i].Value > sectionEnd(syms[i]))}

\* The less function given to sort.Slice.
sizeLess(si, sj) ==
    IF si.Section # sj.Section
    THEN SizeSections[si.Section].ID < SizeSections[sj.Section].ID
    ELSE si.Value < sj.Value

\* The orders sort.Slice can leave todo in.
sizeSorted(syms, idx) ==
    {todo \in [1..Cardinality(idx) -> idx] :
        /\ \A i, j \in DOMAIN todo : i < j => todo[i] # todo[j]
        /\ \A i, j \in DOMAIN todo : i < j => ~sizeLess(syms[todo[j]], syms[todo[i]])}

\* The group loop: the number of leading symbols of todo with the Value
\* and Section of the first one, counted from group.
RECURSIVE sizeGroup(_, _, _)
sizeGroup(syms, todo, group) ==
    IF group < Len(todo)
       /\ syms[todo[1]].Value = syms[todo[group + 1]].Value
       /\ syms[todo[1]].Section = syms[todo[group + 1]].Section
    THEN sizeGroup(syms, todo, group + 1)
    ELSE group

\* anyZero as the group loop leaves it: the loop tests s1.Size again for
\* each further member of the group.
sizeAnyZero(syms, todo) == syms[todo[1]].Size = 0

\* The size computed for the group at the head of todo.
sizeOfGroup(syms, todo, group) ==
    IF group = Len(todo) \/ syms[todo[1]].Section # syms[todo[group + 1]].Section
    THEN sectionEnd(syms[todo[1]]) - syms[todo[1]].Value
    ELSE syms[todo[group + 1]].Value - syms[todo[1]].Value

\* The size applied to every symbol of the group, sized or not.
sizeApplyAll(syms, members, size) ==
    [i \in DOMAIN syms |->
        IF i \in members
        THEN [syms[i] EXCEPT !.Size = size, !.synth = TRUE]
        ELSE syms[i]]

\* The size applied to the zero-sized symbols of the group.
sizeApply(syms, members, size) ==
    [i \in DOMAIN syms |->
        IF i \in members /\ syms[i].Size = 0
        THEN [syms[i] EXCEPT !.Size = size, !.synth = TRUE]
        ELSE syms[i]]

\* One round of the second loop for a group of the given length.
sizeRound(syms, todo, group) ==
    IF ~sizeAnyZero(syms, todo) THEN syms
    ELSE sizeApply(syms, {todo[k] : k \in 1..group}, sizeOfGroup(syms, todo, group))

\* The second loop.
RECURSIVE sizeLoop(_, _)
sizeLoop(syms, todo) ==
    IF Len(todo) = 0 THEN syms
    ELSE sizeLoop(sizeRound(syms, todo, sizeGroup(syms, todo, 1)),
                  SubSeq(todo, sizeGroup(syms, todo, 1) + 1, Len(todo)))

\* The symbols a caller can pass: none has the size-synthesized flag yet.
SizeSyms ==
    {[Section |-> Nil, Kind |-> "SymUndef", Value |-> 0, Size |-> z,
      synth |-> FALSE] : z \in {0, 1}}
    \cup {[Section |-> sec, Kind |-> k, Value |-> v, Size |-> z, synth |-> FALSE] :
            sec \in DOMAIN SizeSections, k \in {"SymData", "SymSection"},
            v \in 0..MaxValue, z \in {0, 1}}

InitSizeVars ==
    /\ input \in UNION {[1..n -> SizeSyms] : n \in 1..MaxSyms}
    /\ output = <<>>
    /\ applied = FALSE

SynthesizeSizes ==
    /\ ~applied
    /\ applied' = TRUE
    /\ \E todo \in sizeSorted(input, sizeTodo(input)) :
          output' = sizeLoop([i \in DOMAIN input |-> sizeSectionSym(input[i])], todo)
    /\ UNCHANGED input

(***************************************************************************)
(* symtab: NewTable, makeAddrIndex and Table.Addr for the symbols of       *)
(* mapped sections.  A symbol is a record of Value and Size, its SymID the *)
(* index in syms; a symAddr is a record of addr and id.  The loop of       *)
(* makeAddrIndex runs on a record of out and stack.                        *)
(***************************************************************************)
\* ^uint64(0): no symbol of the model ends above it.
MaxUint64 == 2 * MaxValue

\* NewTable: the SymIDs indexed under the nil key.
sectionSyms(syms) == {i \in DOMAIN syms : syms[i].Size # 0}

\* The less function makeAddrIndex gives to sort.Slice.
addrLess(syms, a, b) ==
    IF syms[a].Value # syms[b].Value THEN syms[a].Value < syms[b].Value
    ELSE IF syms[a].Size # syms[b].Size THEN syms[a].Size > syms[b].Size
    ELSE a > b

\* sort.Slice of ids: less is a total order, so the result is unique.
RECURSIVE sortIds(_, _)
sortIdsFrom(syms, ids, first) == <<first>> \o sortIds(syms, ids \ {first})

sortIds(syms, ids) ==
    IF ids = {} THEN <<>>
    ELSE sortIdsFrom(syms, ids,
                     CHOOSE a \in ids : \A b \in ids \ {a} : addrLess(syms, a, b))

\* The inner loop of drainStack: pop the symbols that end at endAddr.
RECURSIVE popEnding(_, _)
popEnding(stack, endAddr) ==
    IF Len(stack) > 0 /\ stack[Len(stack)].addr = endAddr
    THEN popEnding(SubSeq(stack, 1, Len(stack) - 1), endAddr)
    ELSE stack

\* drainStack after the pops: the boundary to the symbol left on top.
drained(out, stack, endAddr) ==
    [out |-> IF Len(stack) > 0
             THEN Append(out, [addr |-> endAddr, id |-> stack[Len(stack)].id])
             ELSE out,
     stack |-> stack]

RECURSIVE drainStack(_, _)
drainStack(st, addr) ==
    IF Len(st.stack) = 0 THEN st
    ELSE IF st.stack[Len(st.stack)].addr > addr THEN st
    ELSE drainStack(drained(st.out,
                            popEnding(st.stack, st.stack[Len(st.stack)].addr),
                            st.stack[Len(st.stack)].addr),
                    addr)

\* The drain before a symbol starts, with its shortcut for a stack of one.
drainBefore(st, sym) ==
    IF Len(st.stack) = 1
    THEN IF st.stack[1].addr <= sym.Value THEN [st EXCEPT !.stack = <<>>] ELSE st
    ELSE IF Len(st.stack) > 0 THEN drainStack(st, sym.Value)
    ELSE st

\* The transition to sym at sym.Value.
startAt(out, start) ==
    IF Len(out) > 0 /\ out[Len(out)].addr = start.addr
    THEN [out EXCEPT ![Len(out)] = start]
    ELSE Append(out, start)

\* The insertion sort from the back of the stack.
RECURSIVE insertionSort(_, _)
insertionSort(stack, i) ==
    IF i >= 2 /\ stack[i].addr > stack[i - 1].addr
    THEN insertionSort([stack EXCEPT ![i] = stack[i - 1], ![i - 1] = stack[i]], i - 1)
    ELSE stack

\* The stack with the end of the symbol pushed.
pushEnd(stack, end) == insertionSort(Append(stack, end), Len(stack) + 1)

\* The body of the loop over ids, after the drain.
addSym(st, sym, id) ==
    [out |-> startAt(st.out, [addr |-> sym.Value, id |-> id]),
     stack |-> pushEnd(st.stack, [addr |-> sym.Value + sym.Size, id |-> id])]

RECURSIVE indexLoop(_, _, _)
indexLoop(syms, ids, st) ==
    IF ids = <<>> THEN st
    ELSE indexLoop(syms, Tail(ids),
                   addSym(drainBefore(st, syms[Head(ids)]), syms[Head(ids)], Head(ids)))

makeAddrIndex(syms, ids) ==
    drainStack(indexLoop(syms, sortIds(syms, ids), [out |-> <<>>, stack |-> <<>>]),
               MaxUint64).out

\* sort.Search over tab.addr: the binary search for the first boundary
\* above addr, on the 0-based range [i, j).
RECURSIVE sortSearch(_, _, _, _)
sortSearch(tab, addr, i, j) ==
    IF i < j
    THEN IF ~(addr < tab[((i + j) \div 2) + 1].addr)
         THEN sortSearch(tab, addr, ((i + j) \div 2) + 1, j)
         ELSE sortSearch(tab, addr, i, (i + j) \div 2)
    ELSE i

\* Table.Addr after the search: i is the 0-based index found, less one.
addrAt(syms, tab, addr, i) ==
    IF i < 0 THEN NoSym
    ELSE IF syms[tab[i + 1].id].Value + syms[tab[i + 1].id].Size <= addr THEN NoSym
    ELSE tab[i + 1].id

\* Table.Addr(nil, addr) on the table NewTable builds for syms.
TableAddr(syms, tab, addr) == addrAt(syms, tab, addr, sortSearch(tab, addr, 0, Len(tab)) - 1)

InitAddrVars ==
    /\ input \in [syms : UNION {[1..n -> [Value : 0..MaxValue, Size : 0..MaxValue]] :
                                    n \in 1..MaxSyms},
                   addr : 0..MaxUint64]
    /\ output = <<>>
    /\ applied = FALSE

Addr ==
    /\ ~applied
    /\ applied' = TRUE
    /\ output' = TableAddr(input.syms,
                            makeAddrIndex(input.syms, sectionSyms(input.syms)),
                            input.addr)
    /\ UNCHANGED input

(***************************************************************************)
(* obj: Open.  A reader is a record of head, the bytes it holds up to the  *)
(* length of the magic, and rest, what the ELF parser makes of the file    *)
(* when it gets that far: "none" or the error of one of openElf's returns. *)
(***************************************************************************)
\* var magic [4]uint8.
MagicLen == 4

\* The bytes the model tells apart.
HeaderBytes == {"7f", "E", "L", "F", "A"}

\* The failures of openElf past the magic, by the return that reports them.
ElfErrors ==
    {"elf.NewFile", "unknown ELF class",
     "references bad symbol section", "references non-symbol section",
     "uses section offsets, but has no target section",
     "references missing target section", "reading symbol table",
     "references bad string section", "reading string table"}

\* r.ReadAt(magic[0:], 0): the bytes read, and io.EOF when the reader
\* holds fewer than asked for.
ReadAt(r, n) ==
    [b |-> [i \in 1..n |-> IF i <= Len(r.head) THEN r.head[i] ELSE "00"],
     err |-> IF Len(r.head) < n THEN "EOF" ELSE "none"]

\* The magic test with its four comparisons joined by and.
magicAllDiffer(magic) ==
    magic[1] # "7f" /\ magic[2] # "E" /\ magic[3] # "L" /\ magic[4] # "F"

\* openElf's test that the bytes read are not the ELF magic.
notElfMagic(magic) ==
    magic[1] # "7f" \/ magic[2] # "E" \/ magic[3] # "L" \/ magic[4] # "F"

\* openElf from the magic on: isElf, the File and the error.
openElfParsed(rest) ==
    IF rest # "none" THEN [isElf |-> TRUE, f |-> "nil", err |-> rest]
    ELSE [isElf |-> TRUE, f |-> "elfFile", err |-> "none"]

\* openElf's sniffing of the magic.
openElfSniff(r, read) ==
    IF read.err # "none" THEN [isElf |-> FALSE, f |-> "nil", err |-> read.err]
    ELSE IF notElfMagic(read.b) THEN [isElf |-> FALSE, f |-> "nil", err |-> "none"]
    ELSE openElfParsed(r.rest)

\* Open's choice between the result of openElf and its own error.
openResult(res) ==
    IF res.isElf THEN [f |-> res.f, err |-> res.err]
    ELSE [f |-> "nil", err |-> "unrecognized object file format"]

InitOpenVars ==
    /\ input \in {r \in [head : UNION {[1..n -> HeaderBytes] : n \in 0..MagicLen},
                           rest : ElfErrors \cup {"none"}] :
                      Len(r.head) < MagicLen => r.rest = "elf.NewFile"}
    /\ output = <<>>
    /\ applied = FALSE

Open ==
    /\ ~applied
    /\ applied' = TRUE
    /\ output' = openResult(openElfSniff(input, ReadAt(input, MagicLen)))
    /\ UNCHANGED input

(***************************************************************************)
(* obj: SectionFlags.  f is the sectionFlags byte; a bit mask is a power   *)
(* of two.                                                                 *)
(***************************************************************************)
sectionFlagReadOnly == 1

sectionFlagZeroInitialized == 2

MaxFlagOps == 4

\* f & mask != 0 for a mask of one bit.
hasFlag(f, mask) == (f \div mask) % 2 = 1

\* f |= mask when v, f &^= mask otherwise.
setFlag(f, mask, v) ==
    IF v THEN (IF hasFlag(f, mask) THEN f ELSE f + mask)
    ELSE (IF hasFlag(f, mask) THEN f - mask ELSE f)

ReadOnly(f) == hasFlag(f, sectionFlagReadOnly)

SetReadOnly(f, v) == setFlag(f, sectionFlagReadOnly, v)

ZeroInitialize(f) == hasFlag(f, sectionFlagReadOnly)

SetZeroInitialized(f, v) == setFlag(f, sectionFlagZeroInitialized, v)

\* One setter call on the flags.
flagCall(f, call) ==
    IF call.op = "SetReadOnly" THEN SetReadOnly(f, call.v)
    ELSE SetZeroInitialized(f, call.v)

\* The flags after the calls, from the zero value of SectionFlags.
RECURSIVE flagCalls(_, _)
flagCalls(f, calls) ==
    IF calls = <<>> THEN f ELSE flagCalls(flagCall(f, Head(calls)), Tail(calls))

InitFlagVars ==
    /\ input \in UNION {[1..n -> [op : {"SetReadOnly", "SetZeroInitialized"},
                                    v : BOOLEAN]] : n \in 0..MaxFlagOps}
    /\ output = <<>>
    /\ applied = FALSE

\* The setters are called in turn and both predicates are read.
Flags ==
    /\ ~applied
    /\ applied' = TRUE
    /\ output' = [ReadOnly |-> ReadOnly(flagCalls(0, input)),
                   ZeroInitialize |-> ZeroInitialize(flagCalls(0, input))]
    /\ UNCHANGED input

(***************************************************************************)
(* internal/imap: the AVL tree alone, under Insert and Delete calls as in  *)
(* avl_test.go.  m is the tree, want the set of <<key, node>> pairs of the *)
(* keys inserted and not deleted with the node object Insert returned for  *)
(* each, input the last call.  The caller sets high and value of a new     *)
(* node from its key, as Imap.Insert sets them after avlTree.Insert.       *)
(***************************************************************************)
MaxNodes == 6

InitAvlVars ==
    /\ m = EmptyTree
    /\ want = {}
    /\ input = [op |-> "none", two |-> FALSE, succ |-> Nil]

\* The tree after tree.Insert(key) returned r.n, and the caller's fields.
avlInserted(r, key) ==
    [r.t EXCEPT !.nd[r.n].high = key + 1, !.nd[r.n].value = key + 1]

avlInsertWith(r, key) ==
    /\ m' = avlInserted(r, key)
    /\ want' = want \cup {<<key, r.n>>}
    /\ input' = [op |-> "Insert", two |-> FALSE, succ |-> Nil]

\* tree.Insert(key).
AvlInsert(key) ==
    /\ m.err = "ok"
    /\ Len(m.nd) < MaxNodes
    /\ avlInsertWith(TreeInsert(m, key), key)

\* The node object n is garbage once Delete returns: nothing points to it
\* and the caller drops it, so the fields it is left with are forgotten.
avlDropped(t, n) ==
    IF t.err # "ok" THEN t ELSE [t EXCEPT !.nd[n] = NewNode(0, Nil)]

\* tree.Delete(n) of a node of the tree.
AvlDelete(key, n) ==
    /\ m.err = "ok"
    /\ <<key, n>> \in want
    /\ m' = avlDropped(TreeDelete(m, n), n)
    /\ want' = want \ {<<key, n>>}
    /\ input' = [op |-> "Delete",
                  two |-> m.nd[n].left # Nil /\ m.nd[n].right # Nil,
                  succ |-> NodeNext(m, n)]

(***************************************************************************)
(* Specifications.                                                         *)
(***************************************************************************)
vars == <<imapVars, lineVars, inlineVars, elfVars, cacheVars, pureVars>>

IdleImap == m = EmptyTree /\ want = [a \in Addrs |-> Nil]

IdleLine ==
    /\ dw = DwInlined
    /\ lr = NewLineReader
    /\ ret = "none"
    /\ trace = <<>>
    /\ scope = NoScope

IdleInline == dies = InlineInput(<<>>) /\ built = FALSE /\ inl = NoInlineRanges

IdleElf ==
    /\ file = FilePlain
    /\ once = [c \in Caches(file) |-> "idle"]
    /\ runs = [c \in Caches(file) |-> 0]
    /\ cache = [c \in Caches(file) |-> NoVal]
    /\ th = [t \in Threads |-> NewThread]
    /\ seen = [t \in Threads |-> [c \in Caches(file) |-> NotSeen]]

IdleCache ==
    /\ inlineRangesCache = [e \in Subprograms(DwInlined) |-> Nil]
    /\ lineTable = "nil"
    /\ heap = <<>>
    /\ callers = [t \in Threads |-> NewCaller]
    /\ stored = [e \in Subprograms(DwInlined) |-> <<>>]
    /\ ltc = [cu \in CacheUnits |-> NewLineTableCache]
    /\ ensured = [t \in Threads |-> "none"]

IdlePure == input = Nil /\ output = <<>> /\ applied = FALSE

IdleOthers == IdleImap /\ IdleLine /\ IdleInline /\ IdleElf /\ IdleCache

othersVars == <<imapVars, lineVars, inlineVars, elfVars, cacheVars>>

InitImap == InitImapVars /\ IdleLine /\ IdleInline /\ IdleElf /\ IdleCache /\ IdlePure

NextImap ==
    /\ \E low \in Addrs, high \in Addrs, val \in Vals : Insert(low, high, val)
    /\ UNCHANGED <<lineVars, inlineVars, elfVars, cacheVars, pureVars>>

SpecImap == InitImap /\ [][NextImap]_vars

InitLine == InitLineVars /\ IdleImap /\ IdleInline /\ IdleElf /\ IdleCache /\ IdlePure

NextLine ==
    \/ \E pc \in PCs : SeekPC(pc) /\ UNCHANGED <<imapVars, inlineVars, elfVars, cacheVars, pureVars>>
    \/ \E subprogram \in Subprograms(dw), pc \in PCs :
          SeekSubprogram(subprogram, pc) /\ UNCHANGED <<imapVars, inlineVars, elfVars, cacheVars, pureVars>>
    \/ Next /\ UNCHANGED <<imapVars, inlineVars, elfVars, cacheVars, pureVars>>

SpecLine == InitLine /\ [][NextLine]_vars

InitInline == InitInlineVars /\ IdleImap /\ IdleLine /\ IdleElf /\ IdleCache /\ IdlePure

NextInline == BuildInlineRanges /\ UNCHANGED <<imapVars, lineVars, elfVars, cacheVars, pureVars>>

SpecInline == InitInline /\ [][NextInline]_vars

InitElf == InitElfVars /\ IdleImap /\ IdleLine /\ IdleInline /\ IdleCache /\ IdlePure

NextElf ==
    \/ \E t \in Threads, s \in 1..Len(file.sections) :
          Call(t, s) /\ UNCHANGED <<imapVars, lineVars, inlineVars, cacheVars, pureVars>>
    \/ \E t \in Threads :
          SectionBytes(t) /\ UNCHANGED <<imapVars, lineVars, inlineVars, cacheVars, pureVars>>
    \/ \E t \in Threads :
          FillBytes(t) /\ UNCHANGED <<imapVars, lineVars, inlineVars, cacheVars, pureVars>>
    \/ \E t \in Threads :
          SectionRelocs(t) /\ UNCHANGED <<imapVars, lineVars, inlineVars, cacheVars, pureVars>>
    \/ \E t \in Threads :
          ReadSectionRel(t) /\ UNCHANGED <<imapVars, lineVars, inlineVars, cacheVars, pureVars>>
    \/ \E t \in Threads :
          Decode(t) /\ UNCHANGED <<imapVars, lineVars, inlineVars, cacheVars, pureVars>>
    \/ \E t \in Threads :
          AfterRel(t) /\ UNCHANGED <<imapVars, lineVars, inlineVars, cacheVars, pureVars>>
    \/ \E t \in Threads :
          RelocsOnce(t) /\ UNCHANGED <<imapVars, lineVars, inlineVars, cacheVars, pureVars>>
    \/ \E t \in Threads :
          Return(t) /\ UNCHANGED <<imapVars, lineVars, inlineVars, cacheVars, pureVars>>

SpecElf == InitElf /\ [][NextElf]_vars

InitCache == InitCacheVars /\ IdleImap /\ IdleLine /\ IdleInline /\ IdleElf /\ IdlePure

NextCache ==
    \/ \E t \in Threads, subprogram \in Subprograms(DwInlined) :
          /\ CallInlineRanges(t, subprogram)
          /\ UNCHANGED <<imapVars, lineVars, inlineVars, elfVars, pureVars>>
    \/ \E t \in Threads :
          CacheLoad(t) /\ UNCHANGED <<imapVars, lineVars, inlineVars, elfVars, pureVars>>
    \/ \E t \in Threads :
          CacheEnsure(t) /\ UNCHANGED <<imapVars, lineVars, inlineVars, elfVars, pureVars>>
    \/ \E t \in Threads :
          CacheFillLineTable(t) /\ UNCHANGED <<imapVars, lineVars, inlineVars, elfVars, pureVars>>
    \/ \E t \in Threads :
          CacheBuild(t) /\ UNCHANGED <<imapVars, lineVars, inlineVars, elfVars, pureVars>>
    \/ \E t \in Threads :
          CacheLoadOrStore(t) /\ UNCHANGED <<imapVars, lineVars, inlineVars, elfVars, pureVars>>

SpecCache == InitCache /\ [][NextCache]_vars

\* A program that uses either the caches of an ELF file or those of the
\* DWARF data.
InitFills ==
    /\ InitElfVars /\ InitCacheVars
    /\ file = FilePlain \/ lineTable = "nil"
    /\ IdleImap /\ IdleLine /\ IdleInline /\ IdlePure

NextFills ==
    \/ callers = [t \in Threads |-> NewCaller] /\ NextElf
    \/ th = [t \in Threads |-> NewThread] /\ NextCache

SpecFills == InitFills /\ [][NextFills]_vars

InitRela == IdleOthers /\ InitRelaVars

NextRela == ReadRel /\ UNCHANGED othersVars

SpecRela == InitRela /\ [][NextRela]_vars

InitSym == IdleOthers /\ InitSymVars

NextSym == Sym /\ UNCHANGED othersVars

SpecSym == InitSym /\ [][NextSym]_vars

InitLookup == IdleOthers /\ InitLookupVars

NextLookup == Lookup /\ UNCHANGED othersVars

SpecLookup == InitLookup /\ [][NextLookup]_vars

InitSize == IdleOthers /\ InitSizeVars

NextSize == SynthesizeSizes /\ UNCHANGED othersVars

SpecSize == InitSize /\ [][NextSize]_vars

InitAddr == IdleOthers /\ InitAddrVars

NextAddr == Addr /\ UNCHANGED othersVars

SpecAddr == InitAddr /\ [][NextAddr]_vars

InitOpen == IdleOthers /\ InitOpenVars

NextOpen == Open /\ UNCHANGED othersVars

SpecOpen == InitOpen /\ [][NextOpen]_vars

InitFlags == IdleOthers /\ InitFlagVars

NextFlags == Flags /\ UNCHANGED othersVars

SpecFlags == InitFlags /\ [][NextFlags]_vars

InitAvl ==
    /\ IdleLine /\ IdleInline /\ IdleElf /\ IdleCache
    /\ output = <<>> /\ applied = FALSE
    /\ InitAvlVars

NextAvl ==
    /\ \/ \E key \in Addrs : AvlInsert(key)
       \/ \E key \in Addrs, n \in 1..MaxNodes : AvlDelete(key, n)
    /\ UNCHANGED <<lineVars, inlineVars, elfVars, cacheVars, output, applied>>

SpecAvl == InitAvl /\ [][NextAvl]_vars

(***************************************************************************)
(* Claims about the interval map.                                          *)
(***************************************************************************)
\* C1: after any sequence of Insert calls with non-nil values on an empty
\* map, Find(x) is (Interval{}, nil) where no inserted interval covers x, and
\* otherwise the value of the latest insert covering x with the maximal run
\* of addresses around x that have that same latest value.
C1_FindLatestInsert ==
    /\ m.err = "ok"
    /\ \A k \in Addrs : ImapFind(m, k) = WantFind(want, k)

\* A map in which an insert split an interval in two and another insert
\* overwrote part of one: three stored intervals, the middle one a single
\* address, and an address nothing covers.
C1_Witness ==
    /\ Len(m.nd) >= 3
    /\ ImapFind(m, 2) = [key |-> Interval(2, 3), value |-> 2]
    /\ ImapFind(m, 1).value = 1
    /\ ImapFind(m, 3).value = 1
    /\ ImapFind(m, 0).value = Nil

\* C2: iterating from Iter(0) yields non-empty intervals in strictly
\* increasing Low that do not overlap, and no two consecutive ones abut
\* with equal values.
C2_IterSortedDisjointCoalesced ==
    LET it == IterFrom(m, 0) IN
    /\ \A i \in 1..Len(it) : ~Empty(it[i].key)
    /\ \A i \in 1..(Len(it) - 1) :
         /\ it[i].key.Low < it[i + 1].key.Low
         /\ it[i].key.High <= it[i + 1].key.Low
         /\ ~(it[i].key.High = it[i + 1].key.Low /\ it[i].value = it[i + 1].value)

\* A map whose iteration yields the union of two inserts of one value that
\* abutted, beside an interval of another value.
C2_Witness ==
    /\ want = [a \in Addrs |-> IF a < 3 THEN 1 ELSE IF a < 5 THEN 2 ELSE Nil]
    /\ IterFrom(m, 0) = <<[key |-> Interval(0, 3), value |-> 1],
                          [key |-> Interval(3, 5), value |-> 2]>>

(***************************************************************************)
(* Claims about the line reader.                                           *)
(***************************************************************************)
\* A row put before the rows of the rest of a scan.
scanCons(row, rest) == [rows |-> <<row>> \o rest.rows, err |-> rest.err]

\* newTestLines: the rows a reader reports from where it is until Next
\* returns an error, and that error.
RECURSIVE scanNext(_, _, _)
scanNext(w, r, fuel) ==
    IF r.err # "nil" \/ fuel = 0 THEN [rows |-> <<>>, err |-> r.err]
    ELSE scanCons(Reported(r.lr), scanNext(w, LRNext(w, r.lr), fuel - 1))

\* The linear scan of the full iteration: SeekPC(0) on a new reader, then
\* Next until it returns an error.
LinearScan(w) == scanNext(w, LRSeekPC(w, NewLineReader, 0), MaxTrace)

\* testLines.find with n the index of the last row with Address <= pc (or
\* the first row).
findFrom(l, n) ==
    IF n > Len(l) THEN [ok |-> FALSE, row |-> Reported(NewLineReader)]
    ELSE IF l[n].line.EndSequence
    THEN IF n + 1 > Len(l) THEN [ok |-> FALSE, row |-> Reported(NewLineReader)]
         ELSE [ok |-> TRUE, row |-> l[n + 1]]
    ELSE [ok |-> TRUE, row |-> l[n]]

\* testLines.find(pc) on the rows l of a scan.
find(l, pc) ==
    findFrom(l, IF \E i \in 1..Len(l) : l[i].line.Address <= pc
                THEN CHOOSE i \in 1..Len(l) :
                        /\ l[i].line.Address <= pc
                        /\ \A j \in (i + 1)..Len(l) : l[j].line.Address > pc
                ELSE 1)

\* What checkSeek accepts for a seek to pc that returned err and left the
\* reader on row, f being what the linear scan finds.
checkSeek(f, err, row) ==
    IF f.ok THEN err = "nil" /\ row = f.row ELSE err = "ErrUnknownPC"

\* C3: right after SeekPC(pc), whatever was called before, the reader is on
\* the row the linear scan of the full iteration finds for pc (the last
\* scanned row with Address <= pc, or the row after it if that one is an
\* EndSequence) with nil returned, and if the scan finds no such row the
\* call returned exactly dwarf.ErrUnknownPC.
C3_SeekPCAgreesWithScan ==
    (scope.op = "SeekPC" /\ scope.nexts = 0) =>
        checkSeek(find(LinearScan(dw).rows, scope.pc), ret, Reported(lr))

\* The addresses of the ranges of an entry.
InRanges(rs, a) == \E i \in 1..Len(rs) : rs[i][1] <= a /\ a < rs[i][2]

\* The address a seek to pc in the ranges rs aims at: pc itself if a range
\* contains it, else the start of the first range after pc.
SeekTarget(rs, pc) ==
    IF InRanges(rs, pc) THEN pc
    ELSE CHOOSE a \in 0..(MaxPC + 1) :
            /\ a > pc
            /\ \/ /\ \E i \in 1..Len(rs) : rs[i][1] = a
                  /\ \A i \in 1..Len(rs) : rs[i][1] > pc => rs[i][1] >= a
               \/ /\ a = MaxPC + 1
                  /\ \A i \in 1..Len(rs) : rs[i][1] <= pc

\* Whether rows[k] is the row that covers address a: not an EndSequence,
\* at or before a, and followed in its sequence by a row after a.
Covers(rows, k, a) ==
    /\ ~rows[k].EndSequence
    /\ rows[k].Address <= a
    /\ k < Len(rows)
    /\ rows[k + 1].Address > a

\* C4: after SeekSubprogram(sub, pc) returned nil, whatever was called on
\* the reader before, the first row reported is the row of sub's unit that
\* covers pc (or the start of sub's first range after pc), and every row
\* reported since that is not an EndSequence has its Address in one of
\* sub's ranges.
C4_SeekSubprogramScopes ==
    (scope.op = "SeekSubprogram" /\ Len(trace) >= 1) =>
        /\ \E k \in 1..Len(dw.lines[SubprogramCU(dw, scope.subprogram)]) :
             /\ Covers(dw.lines[SubprogramCU(dw, scope.subprogram)], k,
                       SeekTarget(dw.info[scope.subprogram].Ranges, scope.pc))
             /\ trace[1].line = dw.lines[SubprogramCU(dw, scope.subprogram)][k]
        /\ \A i \in 1..Len(trace) :
             \/ trace[i].line.EndSequence
             \/ InRanges(dw.info[scope.subprogram].Ranges, trace[i].line.Address)

\* C5: in the rows reported by a successful seek and the Next calls after
\* it, Line.Address never decreases from one row to the next.
C5_AddressNeverDecreases ==
    \A i \in 1..(Len(trace) - 1) : trace[i].line.Address <= trace[i + 1].line.Address

\* The compilation units of w.
Units(w) == {e \in 1..Len(w.info) : w.info[e].Tag = "CompileUnit"}

\* The rows of the line tables of w that are no EndSequence and whose
\* address lies in a range of a compilation unit.
RowsInUnits(w) ==
    {r \in UNION {{w.lines[cu][k] : k \in 1..Len(w.lines[cu])} : cu \in Units(w)} :
        /\ ~r.EndSequence
        /\ \E cu \in Units(w) : InRanges(w.info[cu].Ranges, r.Address)}

\* C6: with the reader scoped by SeekPC(0), no call returns an error other
\* than io.EOF, and when Next returns io.EOF every row of a line table that
\* is no EndSequence and lies in a unit's range was reported exactly once.
C6_FullScanReportsEveryRow ==
    (scope.op = "SeekPC" /\ scope.pc = 0) =>
        /\ ret \in {"nil", "EOF"}
        /\ (ret = "EOF" =>
               \A r \in RowsInUnits(dw) :
                  Cardinality({i \in 1..Len(trace) : trace[i].line = r}) = 1)

(***************************************************************************)
(* Claims about inlineRanges.                                              *)
(***************************************************************************)
\* Whether the entry at offset e lies below the entry at offset n.
Below(info, n, e) == n < e /\ e < afterEntry(info, n)

\* The entries of subprogram's subtree that make up inline stacks: the
\* subprogram and the inlined subroutines below it that are not below a
\* nested subprogram.
StackEntries(info, subprogram) ==
    {subprogram} \cup
    {e \in 1..Len(info) :
        /\ Below(info, subprogram, e)
        /\ info[e].Tag = "InlinedSubroutine"
        /\ ~\E n \in 1..Len(info) :
               /\ Below(info, subprogram, n)
               /\ info[n].Tag = "Subprogram"
               /\ Below(info, n, e)}

\* The offsets in es from the greatest to the least: entries nested in one
\* another, innermost first.
RECURSIVE Descending(_)
Descending(es) ==
    IF es = {} THEN <<>>
    ELSE <<CHOOSE e \in es : \A o \in es : o <= e>>
         \o Descending(es \ {CHOOSE e \in es : \A o \in es : o <= e})

\* The inline stack at pc that the entries themselves describe.
EnclosingChain(info, subprogram, pc) ==
    Descending({e \in StackEntries(info, subprogram) : InRanges(info[e].Ranges, pc)})

\* The inline stack at pc that a map of inlineRanges gives.
FoundChain(ir, f) == IF f.value = Nil THEN <<>> ELSE Chain(ir.sites, f.value)

\* C7: at every PC the map inlineRanges(sub) returned gives the site whose
\* chain Entry, Caller.Entry, ... lists exactly the inlined subroutines
\* below sub (outside nested subprograms) that cover the PC and enclose one
\* another, innermost first, ending with sub itself.
C7_InlineChains ==
    built =>
        \A pc \in 1..Len(dies.info) :
            FoundChain(inl, ImapFind(inl.m, pc))
                = EnclosingChain(dies.info, TopSubprogram, pc)

(***************************************************************************)
(* Claims about the caches of an ELF file.                                 *)
(***************************************************************************)
\* The caches of section bytes and of decoded relocation sections.
OnceCaches == {c \in Caches(file) : c[1] \in {"data", "rel"}}

\* Whether sectionBytes or readSectionRel has returned to thread t from
\* cache c.
Observed(t, c) == seen[t][c].err # "none"

\* C8: for the bytes of a section and for the decoding of a relocation
\* section, the fill function has run at most once, exactly once when a
\* caller has returned, and all callers returned the same slice and the
\* same error.
C8_FillRunsOnce ==
    \A c \in OnceCaches :
        /\ runs[c] <= 1
        /\ \A t1 \in Threads :
              Observed(t1, c) =>
                 /\ runs[c] = 1
                 /\ \A t2 \in Threads :
                       Observed(t2, c) => seen[t1][c] = seen[t2][c]

\* Two threads returned from the same section's bytes and from the same
\* relocation section's decoding, one of them after blocking on the Once
\* while the other ran the fill.
C8_Witness ==
    \A kind \in {"data", "rel"} :
        \E c \in OnceCaches, t1 \in Threads, t2 \in Threads :
            /\ c[1] = kind
            /\ t1 # t2
            /\ c \in th[t1].waited
            /\ Observed(t1, c)
            /\ Observed(t2, c)

(***************************************************************************)
(* Claims about the cache of inlineRanges.                                 *)
(***************************************************************************)
\* C9: every call of inlineRanges that returned a map returned the map
\* that was stored first for its subprogram entry, and the cache holds the
\* map stored first and never another.
C9_FirstStoredMapReturned ==
    /\ \A e \in Subprograms(DwInlined) :
          /\ Len(stored[e]) <= 1
          /\ Len(stored[e]) = 1 => inlineRangesCache[e] = stored[e][1]
          /\ Len(stored[e]) = 0 => inlineRangesCache[e] = Nil
    /\ \A t \in Threads :
          (callers[t].pc = "returned" /\ lineTable = "nil") =>
              /\ Len(stored[callers[t].entry]) >= 1
              /\ callers[t].result = stored[callers[t].entry][1]

\* A thread built a map of its own, lost the race and returned the map
\* another thread had stored and returned.
C9_Witness ==
    \E t1 \in Threads, t2 \in Threads :
        /\ t1 # t2
        /\ callers[t1].pc = "returned"
        /\ callers[t2].pc = "returned"
        /\ callers[t1].entry = callers[t2].entry
        /\ callers[t1].m # Nil
        /\ callers[t2].m # Nil
        /\ callers[t1].result # callers[t1].m
        /\ callers[t1].result = callers[t2].m

(***************************************************************************)
(* Claims about the errors of Section.Data.                                *)
(***************************************************************************)
\* The errors with which the decoding of a relocation section fails.
DecodeErrors ==
    {"unknown relocation type", "out of section bounds",
     "address is not in any section", "address overflow",
     "bad REL relocation size"}

\* The relocation sections applicable to section s whose decoding failed.
FailedRelocSections(s) ==
    {r \in 1..Len(file.sections) :
        /\ \E i \in 1..Len(relocSectionsOf(file, s)) : relocSectionsOf(file, s)[i] = r
        /\ once[<<"rel", r>>] = "done"
        /\ cache[<<"rel", r>>].err \in DecodeErrors}

\* C10: when the decoding of a relocation section applicable to section S
\* failed, Section.Data on S has returned that error and no Data, never a
\* nil error.
C10_DataReturnsDecodeError ==
    \A t \in Threads :
        (th[t].pc = "done" /\ FailedRelocSections(th[t].s) # {}) =>
            /\ ~th[t].out.populated
            /\ \E r \in FailedRelocSections(th[t].s) :
                  th[t].out.err = cache[<<"rel", r>>].err

(***************************************************************************)
(* Claims about failed fills.                                              *)
(***************************************************************************)
\* C11: a cache whose fill failed with an error (the bytes of a section,
\* the decoding of a relocation section, the merged relocs of a section,
\* the line table cache of a unit) has run its fill once and for all, and
\* every access of it has returned that error.
C11_FailedFillMemoized ==
    /\ \A c \in Caches(file) :
          cache[c].err # "nil" =>
              /\ runs[c] = 1
              /\ once[c] = "done"
              /\ \A t \in Threads :
                    Observed(t, c) => seen[t][c].err = cache[c].err
    /\ \A cu \in DOMAIN ltc :
          ltc[cu].err # "nil" =>
              /\ ltc[cu].runs = 1
              /\ ltc[cu].once = "done"
              /\ \A t \in Threads :
                    ensured[t] # "none" => ensured[t] = ltc[cu].err

\* The bytes of a section and the merged relocs of a section have failed
\* to fill, and two threads have accessed each: the one that ran the fill
\* and one that came after it.
C11_Witness ==
    \A kind \in {"data", "relocs"} :
        \E c \in Caches(file), t1 \in Threads, t2 \in Threads :
            /\ c[1] = kind
            /\ cache[c].err # "nil"
            /\ t1 # t2
            /\ Observed(t1, c)
            /\ Observed(t2, c)

(***************************************************************************)
(* Claims about the relocs of a Data.                                      *)
(***************************************************************************)
\* C12: the relocs R of every Data that Section.Data returned are in
\* non-decreasing order of Addr.
C12_RelocsSorted ==
    \A t \in Threads :
        (th[t].pc = "done" /\ th[t].out.populated) =>
            \A i \in 1..(Len(th[t].out.R) - 1) :
                th[t].out.R[i].Addr <= th[t].out.R[i + 1].Addr

\* Section.Data returned the merge of two relocation sections of a
\* relocatable file, one of them with adjusted addresses.
C12_Witness ==
    \E t \in Threads :
        /\ th[t].pc = "done"
        /\ th[t].out.populated
        /\ file.relocatable
        /\ Len(relocSectionsOf(file, th[t].s)) = 2
        /\ Len(th[t].out.R) = 4

(***************************************************************************)
(* Claims about the addends of RELA entries.                               *)
(***************************************************************************)
\* The 32-bit field u as a two's-complement value, sign-extended.
SignExtend32(u) == IF u >= Uint32Space \div 2 THEN u - Uint32Space ELSE u

\* C13: the Addend decoded from each entry of a 32-bit RELA section is the
\* addend field of the entry as a signed two's-complement value.
C13_Rela32AddendSignExtended ==
    (applied /\ input.class = 32 /\ input.typ = "RELA") =>
        \A k \in 1..Len(input.data) :
            output[k].Addend = SignExtend32(input.data[k].Add)

(***************************************************************************)
(* Claims about ELF symbols.                                               *)
(***************************************************************************)
\* The flags of a section among WRITE, ALLOC and EXECINSTR.
KindFlags(es) == es.Flags \cap {"WRITE", "ALLOC", "EXECINSTR"}

\* C14: a symbol that is not STT_SECTION has Kind Undef for SHN_UNDEF, BSS
\* for SHN_COMMON and Absolute for SHN_ABS, and otherwise by the flags of
\* its section Text for ALLOC|EXECINSTR, ROData for ALLOC alone, and for
\* ALLOC|WRITE Data in a PROGBITS section and BSS in a section of any other
\* type; an STT_SECTION symbol has Kind Section.
C14_SymKind ==
    applied =>
        /\ input.stType = "STT_SECTION" => output.Kind = "SymSection"
        /\ input.stType # "STT_SECTION" =>
              /\ input.shn = "SHN_UNDEF" => output.Kind = "SymUndef"
              /\ input.shn = "SHN_COMMON" => output.Kind = "SymBSS"
              /\ input.shn = "SHN_ABS" => output.Kind = "SymAbsolute"
              /\ (input.shn = "section" /\ input.es.ok) =>
                    /\ KindFlags(input.es) = {"ALLOC", "EXECINSTR"}
                          => output.Kind = "SymText"
                    /\ KindFlags(input.es) = {"ALLOC"}
                          => output.Kind = "SymROData"
                    /\ KindFlags(input.es) = {"ALLOC", "WRITE"}
                          => output.Kind = IF input.es.Type = "PROGBITS"
                                           THEN "SymData" ELSE "SymBSS"

\* C15: lookup(e) in a table with the range [start, end) returns
\* (start + e - 1, true) exactly when 1 <= e <= end - start and otherwise
\* (NoSym, false): for e = 0 in the table that starts at 0 and in one that
\* starts later, and for every e in the empty table.
C15_LookupInRange ==
    applied =>
        output = IF 1 <= input.elfSym
                    /\ input.elfSym <= input.tab.end - input.tab.start
                 THEN [id |-> input.tab.start + input.elfSym - 1, ok |-> TRUE]
                 ELSE [id |-> NoSym, ok |-> FALSE]

\* Index 0 was looked up in a table with symbols that does not start at 0.
C15_Witness ==
    /\ applied
    /\ input.elfSym = 0
    /\ 0 < input.tab.start
    /\ input.tab.start < input.tab.end
    /\ output = [id |-> NoSym, ok |-> FALSE]

\* The symbols of the input that SynthesizeSizes groups with symbol i: those
\* with a section, not of Section kind, not past the end of the section,
\* with the section and value of i.
SizeGroupOf(i) ==
    {j \in sizeTodo(input) :
        /\ input[j].Section = input[i].Section
        /\ input[j].Value = input[i].Value}

\* The values above that of symbol i among the grouped symbols of its
\* section.
SizeLater(i) ==
    {input[j].Value : j \in {k \in sizeTodo(input) :
                                 /\ input[k].Section = input[i].Section
                                 /\ input[k].Value > input[i].Value}}

\* The distance from symbol i to the next greater symbol value in its
\* section, or to the end of the section when there is none.
SizeExpected(i) ==
    IF SizeLater(i) = {} THEN sectionEnd(input[i]) - input[i].Value
    ELSE (CHOOSE v \in SizeLater(i) : \A w \in SizeLater(i) : v <= w) - input[i].Value

\* C16: in every group of symbols with a section, not of Section kind, at
\* or before the end of the section and sharing section and value, every
\* member that had Size 0 gets the distance to the next greater symbol
\* value of the section (to the end of the section when there is none) and
\* is flagged size-synthesized, whichever member comes first in the slice.
C16_GroupSizedTogether ==
    applied =>
        \A i \in sizeTodo(input) :
            input[i].Size = 0 =>
                output[i].Size = SizeExpected(i) /\ output[i].synth

\* C17: a symbol with a non-zero Size on entry, and a symbol with no
\* section, is left as it was: same Size, flag not set.
C17_SizedAndSectionlessUnchanged ==
    applied =>
        \A i \in DOMAIN input :
            (input[i].Size # 0 \/ input[i].Section = Nil) => output[i] = input[i]

\* Sizes were synthesized next to a sized symbol of the same group and a
\* symbol without a section.
C17_Witness ==
    /\ applied
    /\ \E i, j, k \in DOMAIN input :
          /\ input[i].Size # 0 /\ i \in sizeTodo(input)
          /\ j \in SizeGroupOf(i) /\ input[j].Size = 0 /\ output[j].synth
          /\ input[k].Section = Nil /\ input[k].Size = 0

\* C18: every symbol flagged size-synthesized ends at or before the end of
\* its section, and no symbol whose Value lies past the end of its section
\* is given a size, symbols below the start of the section included.
C18_SynthesizedWithinSection ==
    applied =>
        \A i \in DOMAIN output :
            /\ output[i].synth =>
                  output[i].Value + output[i].Size <= sectionEnd(output[i])
            /\ (input[i].Section # Nil /\ input[i].Value > sectionEnd(input[i])) =>
                  output[i] = input[i]

\* A symbol below the start of its section was sized while another lay
\* past the end of the section.
C18_Witness ==
    /\ applied
    /\ \E i, j \in DOMAIN input :
          /\ input[i].Section # Nil /\ input[j].Section = input[i].Section
          /\ input[i].Value < SizeSections[input[i].Section].Addr
          /\ output[i].synth
          /\ input[j].Value > sectionEnd(input[j])
          /\ input[j].Size = 0

\* The symbols of the input that contain its address.
AddrCandidates ==
    {i \in DOMAIN input.syms :
        /\ input.syms[i].Value <= input.addr
        /\ input.addr < input.syms[i].Value + input.syms[i].Size}

\* Symbol a is preferred to b: the later Value, then the smaller Size,
\* then the lower SymID.
AddrPrefer(a, b) ==
    IF input.syms[a].Value # input.syms[b].Value
    THEN input.syms[a].Value > input.syms[b].Value
    ELSE IF input.syms[a].Size # input.syms[b].Size
    THEN input.syms[a].Size < input.syms[b].Size
    ELSE a < b

\* C19: Table.Addr(nil, addr) returns what a brute-force search returns:
\* among the symbols with Value <= addr < Value + Size the one with the
\* latest Value, then the smallest Size, then the lowest SymID, and NoSym
\* when no symbol contains addr, however the symbols nest or overlap.
C19_AddrMatchesBruteForce ==
    applied =>
        output = IF AddrCandidates = {} THEN NoSym
                 ELSE CHOOSE a \in AddrCandidates :
                        \A b \in AddrCandidates \ {a} : AddrPrefer(a, b)

C20_WitnessShort ==
    /\ applied
    /\ Len(input.head) = 3
    /\ output = [f |-> "nil", err |-> "unrecognized object file format"]

\* The value the last call of the setter op was given, FALSE when it was
\* never called.
LastSet(op) ==
    \E i \in DOMAIN input :
        /\ input[i].op = op /\ input[i].v
        /\ \A j \in DOMAIN input : j > i => input[j].op # op

\* C21: ZeroInitialize() is true exactly when the zero-initialized flag was
\* set, whatever the read-only flag is: SetReadOnly does not change what
\* ZeroInitialize() reports and SetZeroInitialized does not change what
\* ReadOnly() reports.
C21_ZeroInitializeOwnFlag ==
    applied =>
        /\ output.ZeroInitialize = LastSet("SetZeroInitialized")
        /\ output.ReadOnly = LastSet("SetReadOnly")

\* The height of the subtree at n, counted from the links.
RECURSIVE RealHeight(_, _, _)
RealHeight(t, n, fuel) ==
    IF n = Nil \/ fuel = 0 THEN 0
    ELSE 1 + (IF RealHeight(t, t.nd[n].left, fuel - 1) > RealHeight(t, t.nd[n].right, fuel - 1)
              THEN RealHeight(t, t.nd[n].left, fuel - 1)
              ELSE RealHeight(t, t.nd[n].right, fuel - 1))

\* The nodes of the subtree at n in order.
RECURSIVE InOrder(_, _, _)
InOrder(t, n, fuel) ==
    IF n = Nil \/ fuel = 0 THEN <<>>
    ELSE InOrder(t, t.nd[n].left, fuel - 1) \o <<n>> \o InOrder(t, t.nd[n].right, fuel - 1)

\* The keys of a set in ascending order.
RECURSIVE SortedKeys(_)
SortedKeys(ks) ==
    IF ks = {} THEN <<>>
    ELSE <<CHOOSE k \in ks : \A j \in ks : k <= j>>
         \o SortedKeys(ks \ {CHOOSE k \in ks : \A j \in ks : k <= j})

\* Node n is balanced, caches its height, and is the parent of its children.
AvlNodeOk(t, n) ==
    /\ RealHeight(t, t.nd[n].left, MaxNodes) - RealHeight(t, t.nd[n].right, MaxNodes)
          \in {-1, 0, 1}
    /\ t.nd[n].heightCache = RealHeight(t, n, MaxNodes)
    /\ t.nd[n].left # Nil => t.nd[t.nd[n].left].parent = n
    /\ t.nd[n].right # Nil => t.nd[t.nd[n].right].parent = n

\* C22: after any sequence of Insert and Delete calls every node of the tree
\* has subtrees whose heights differ by at most one, caches one more than
\* the greater of them, and is the parent its children name (the root names
\* none), and the in-order traversal yields the keys inserted and not
\* deleted, in ascending order.
C22_AvlInvariants ==
    /\ m.err = "ok"
    /\ m.root # Nil => m.nd[m.root].parent = Nil
    /\ \A n \in Range(InOrder(m, m.root, MaxNodes + 1)) : AvlNodeOk(m, n)
    /\ [i \in 1..Len(InOrder(m, m.root, MaxNodes + 1)) |->
           m.nd[InOrder(m, m.root, MaxNodes + 1)[i]].key]
          = SortedKeys({p[1] : p \in want})

\* Every node was deleted after a deletion that rebalanced the tree.
C22_Witness ==
    /\ input.op = "Delete"
    /\ want = {}
    /\ m.root = Nil
    /\ Len(m.nd) = MaxNodes

\* The node held for the least key above k, Nil when there is none.
NextHeld(k) ==
    IF \E p \in want : p[1] > k
    THEN (CHOOSE p \in want : p[1] > k /\ \A q \in want : q[1] > k => p[1] <= q[1])[2]
    ELSE Nil

\* C23: Delete removes only the node it is given: every other node keeps its
\* key, high and value, and Next of a node held across the deletion is the
\* remaining node with the least greater key, or nil, also for the in-order
\* successor of a deleted node that had two children.
C23_DeleteKeepsOtherNodes ==
    \A p \in want :
        /\ m.nd[p[2]].key = p[1]
        /\ m.nd[p[2]].high = p[1] + 1
        /\ m.nd[p[2]].value = p[1] + 1
        /\ NodeNext(m, p[2]) = NextHeld(p[1])

\* A node with two children was deleted; its in-order successor is still
\* held and has a node after it.
C23_Witness ==
    /\ input.op = "Delete"
    /\ input.two
    /\ \E p \in want : p[2] = input.succ /\ NodeNext(m, p[2]) # Nil

\* C24: a Next issued on an EndSequence row that returns nil leaves the
\* reader on another row, and no run of Next calls after a seek reports
\* MaxTrace rows: with the finite line tables of the model every iteration
\* ends in io.EOF or another error before that.
C24_NextMakesProgress ==
    [][/\ (scope'.nexts = scope.nexts + 1 /\ lr.Line.EndSequence /\ ret' = "nil") =>
             (~lr'.Line.EndSequence /\ Len(trace') = Len(trace) + 1)
       /\ Len(trace') < MaxTrace]_vars

\* An iteration that went past an EndSequence row has ended in io.EOF.
C24_Witness ==
    /\ ret = "EOF"
    /\ \E i \in 1..(Len(trace) - 1) :
          trace[i].line.EndSequence /\ ~trace[i + 1].line.EndSequence

\* The row dwarf.LineReader.Next would read next lies at or beyond the
\* High of the range the reader is on.
NextRowBeyond ==
    /\ lr.dlr <= Len(dw.lines[lr.cu])
    /\ dw.lines[lr.cu][lr.dlr].Address >= lr.rIter.Key.High

\* C25: every row reported that is not an EndSequence has its Address in
\* the scope range the range iterator is on, and a Next whose next table
\* row lies at or beyond the High of that range reports an EndSequence at
\* exactly that High, so that rows of two ranges are separated by one.
C25_RowsInsideScopeRange ==
    [][/\ (ret' = "nil" /\ ~lr'.Line.EndSequence) =>
             Contains(lr'.rIter.Key, lr'.Line.Address)
       /\ (/\ scope'.nexts = scope.nexts + 1
           /\ ~lr.Line.EndSequence
           /\ NextRowBeyond) =>
             (ret' = "nil" /\ lr'.Line = EndRow(lr.rIter.Key.High, 0))]_vars

\* The stack the inline map ir has at addr, nil when it has none.
StackIn(ir, addr) ==
    IF ImapFind(ir.m, addr).value = Nil THEN <<>>
    ELSE Chain(ir.sites, ImapFind(ir.m, addr).value)

\* The stack of the subprogram sub at addr, nil when no subprogram
\* contains addr.
StackOfSubprogram(sub, addr) ==
    IF sub = Nil THEN <<>> ELSE StackIn(inlineRanges(dw, sub), addr)

\* The stack at addr: that of the inline map of the subprogram containing
\* addr.
StackAt(addr) ==
    StackOfSubprogram(AddrToSubprogram(dw, addr, AddrToCU(dw, addr)), addr)

\* C26: after a successful seek or Next on a reader scoped by SeekPC, Stack
\* is nil on an EndSequence row and otherwise the value at Line.Address of
\* the inline map of the subprogram containing Line.Address (nil when no
\* subprogram or inline range covers it), whatever stack an earlier row
\* left in the cache.
C26_StackMatchesInlineMap ==
    (scope.op = "SeekPC" /\ ret = "nil") =>
        lr.Stack = IF lr.Line.EndSequence THEN <<>> ELSE StackAt(lr.Line.Address)

\* The reader, used before in a subprogram scope, is on a row inside an
\* inlined subroutine after a row outside it.
C26_Witness ==
    /\ scope.op = "SeekPC" /\ ret = "nil"
    /\ Len(trace) >= 2
    /\ Len(lr.Stack) >= 2
    /\ Len(trace[Len(trace) - 1].stack) = 1

\* The rows and the last error a caller sees who makes n more Next calls
\* after a call that returned r and the rows tr.
RECURSIVE FreshNexts(_, _, _)
FreshNextsFrom(r, tr, n) ==
    FreshNexts(r, IF r.err = "nil" THEN Append(tr, Reported(r.lr)) ELSE tr, n - 1)

FreshNexts(r, tr, n) ==
    IF n = 0 THEN [trace |-> tr, ret |-> r.err]
    ELSE FreshNextsFrom(LRNext(dw, r.lr), tr, n)

\* SeekPC(pc) on a new LineReader, as the caller sees it.
FreshSeek(r) == [r |-> r, tr |-> IF r.err = "nil" THEN <<Reported(r.lr)>> ELSE <<>>]

FreshOutcomeOf(f, n) == FreshNexts(f.r, f.tr, n)

\* SeekPC(pc) followed by n Next calls on a new LineReader.
FreshOutcome(pc, n) == FreshOutcomeOf(FreshSeek(LRSeekPC(dw, NewLineReader, pc)), n)

\* C30: the rows, stacks and errors of SeekPC(pc) and the Next calls after
\* it are those of the same calls on a new LineReader, wherever
\* SeekSubprogram or SeekPC had positioned the reader before.
C30_SeekPCIgnoresHistory ==
    scope.op = "SeekPC" =>
        [trace |-> trace, ret |-> ret] = FreshOutcome(scope.pc, scope.nexts)

(***************************************************************************)
(* Claims about the merged relocs of a section.                            *)
(***************************************************************************)
\* Whether the range [first.Addr, last.Addr] of the decoded relocs rs
\* intersects [sec.Addr, sec.Addr + sec.Size).
IntersectsSection(sec, rs) ==
    /\ rs[1].Addr < sec.Addr + sec.Size
    /\ rs[Len(rs)].Addr >= sec.Addr

\* The decoded relocs of those of the relocation sections rs whose range
\* intersects section sec, one after the other.
RECURSIVE IntersectingRelocs(_, _)
IntersectingRelocs(sec, rs) ==
    IF Len(rs) = 0 THEN <<>>
    ELSE (IF /\ Len(cache[<<"rel", Head(rs)>>].v) # 0
             /\ IntersectsSection(sec, cache[<<"rel", Head(rs)>>].v)
          THEN cache[<<"rel", Head(rs)>>].v
          ELSE <<>>) \o IntersectingRelocs(sec, Tail(rs))

\* C27: the relocs that sectionRelocs has cached for a section S with two
\* or more applicable relocation sections are the relocs, sorted by Addr,
\* of exactly those applicable relocation sections whose decoded range
\* [first.Addr, last.Addr] intersects [S.Addr, S.Addr + S.Size).
C27_MergedRelocsIntersectSection ==
    \A s \in 1..Len(file.sections) :
        (/\ Len(relocSectionsOf(file, s)) >= 2
         /\ once[<<"relocs", s>>] = "done"
         /\ cache[<<"relocs", s>>].err = "nil") =>
            cache[<<"relocs", s>>].v
                = sortRelocs(IntersectingRelocs(file.sections[s],
                                                relocSectionsOf(file, s)))

(***************************************************************************)
(* Claims about the implicit addends of REL sections.                      *)
(***************************************************************************)
\* Whether the n bytes at addr lie entirely inside section sec.
BytesInside(sec, addr, n) ==
    /\ sec.Addr <= addr
    /\ addr + n <= sec.Addr + sec.Size

\* Whether the bytes of the addend of entry e of REL section r lie
\* entirely inside the target of r, or inside some loaded section when r
\* has no target.
AddendInside(r, e) ==
    IF relTarget(file, r) # Nil
    THEN BytesInside(file.sections[relTarget(file, r)], e.Off, e.Size)
    ELSE \E s \in 1..Len(file.sections) :
            /\ file.sections[s].Alloc
            /\ BytesInside(file.sections[s], e.Off, e.Size)

\* The REL sections of an executable whose decoding has ended and that
\* have an entry of size 1, 2, 4 or 8 whose addend bytes are not entirely
\* inside a section.
OutsideRelSections ==
    {r \in 1..Len(file.sections) :
        /\ file.sections[r].Type = "REL"
        /\ ~file.relocatable
        /\ once[<<"rel", r>>] = "done"
        /\ \E k \in 1..Len(file.sections[r].Bytes) :
              /\ file.sections[r].Bytes[k].Size \in {1, 2, 4, 8}
              /\ ~AddendInside(r, file.sections[r].Bytes[k])}

\* C28: the decoding of a REL section with a relocation of size 1, 2, 4 or
\* 8 whose bytes are not entirely inside a section (the target, or for a
\* global relocation section any loaded section) ends with an error: it
\* never panics on a read past the end of the section's bytes.
C28_AddendOutsideIsError ==
    /\ \A t \in Threads : th[t].pc # "panicked"
    /\ \A r \in OutsideRelSections : cache[<<"rel", r>>].err # "nil"

(***************************************************************************)
(* Claims about the addresses of the relocs of a relocatable file.         *)
(***************************************************************************)
\* Whether reloc rel comes from an entry, at some offset within section
\* sec, of one of the relocation sections rs, its Addr being the address
\* of sec plus that offset.
AtOffsetIn(sec, rs, rel) ==
    \E i \in 1..Len(rs) :
        \E k \in 1..Len(file.sections[rs[i]].Bytes) :
            /\ rel.Addend = relaAddend(file.class, file.sections[rs[i]].Bytes[k].Add)
            /\ rel.Size = file.sections[rs[i]].Bytes[k].Size
            /\ rel.Addr = sec.Addr + file.sections[rs[i]].Bytes[k].Off

\* C29: in a relocatable file, the Addr of every reloc in the Data that
\* Section.Data returned for section T is the address of T plus the
\* section offset stored in the reloc's entry.
C29_RelocAddrIsTargetPlusOffset ==
    \A t \in Threads :
        (th[t].pc = "done" /\ th[t].out.populated /\ file.relocatable) =>
            \A i \in 1..Len(th[t].out.R) :
                AtOffsetIn(file.sections[th[t].s],
                           relocSectionsOf(file, th[t].s), th[t].out.R[i])

====
